---- MODULE Spec2Model ----
(***************************************************************************)
(* Vehicle catalog synchronisation (sync-service.ts, vehicle-filters.ts,   *)
(* asofix-api.ts): the Filter Evaluator, the Reconciler (processVehicle),  *)
(* the Sync Orchestrator (syncAll) with its reactivation and cleanup       *)
(* phases, the point lookup by license plate and the image pipeline.       *)
(*                                                                         *)
(* Strings on which the code computes (toUpperCase, toLowerCase, includes, *)
(* trim) are sequences of one-character strings; an accented letter is one *)
(* character written "a_acute", "i_acute".  Identifiers that are only     *)
(* compared (asofix ids, status enum values, reason buckets) are strings.  *)
(***************************************************************************)
EXTENDS Integers, Sequences, FiniteSets, TLC

VARIABLES
    filterConfig,   \* config/filters: blockedBranchOffices, minPrice, blockedStatuses, requireImages
    fvehicle,       \* the record handed to the Filter Evaluator (filter specification)
    fresult,        \* what shouldOmitVehicle returned for fvehicle, or NULL
    apiKey,         \* whether ASOFIX_API_KEY is configured
    limit,          \* SYNC_LIMIT
    perPage,        \* page size of the paginated fetch
    incremental,    \* syncAll's incremental flag
    now,            \* wall clock, in hours
    feed,           \* the external catalog: the sequence of records the API pages over
    vehicles,       \* table vehicles, by asofix_id
    images,         \* table vehicle_images: set of [id, vehicle_id, image_url]
    pending,        \* table pending_images: sequence of [vehicle_id, image_url], ORDER BY id
    taxonomies,     \* table vehicle_taxonomies: set of [vehicle_id, taxonomy, term]
    syncLogs,       \* table sync_logs: whether it exists, and its rows [status, errors_count]
    pc,             \* where syncAll is
    run             \* the local variables of the running syncAll

vars == <<filterConfig, fvehicle, fresult, apiKey, limit, perPage, incremental, now, feed,
          vehicles, images, pending, taxonomies, syncLogs, pc, run>>

(***************************************************************************)
(* Strings                                                                 *)
(***************************************************************************)
\* null / undefined
NULL == <<"null">>

\* JavaScript falsiness of a string-or-null value: null, undefined and ''.
Falsy(s) == s = NULL \/ s = <<>>

\* s || ''
OrEmpty(s) == IF Falsy(s) THEN <<>> ELSE s

CasePairs ==
    { <<"a","A">>, <<"b","B">>, <<"c","C">>, <<"d","D">>, <<"e","E">>, <<"f","F">>,
      <<"g","G">>, <<"h","H">>, <<"i","I">>, <<"j","J">>, <<"k","K">>, <<"l","L">>,
      <<"m","M">>, <<"n","N">>, <<"o","O">>, <<"p","P">>, <<"q","Q">>, <<"r","R">>,
      <<"s","S">>, <<"t","T">>, <<"u","U">>, <<"v","V">>, <<"w","W">>, <<"x","X">>,
      <<"y","Y">>, <<"z","Z">> }

LowerOf == [c \in { p[2] : p \in CasePairs } |-> (CHOOSE p \in CasePairs : p[2] = c)[1]]
UpperOf == [c \in { p[1] : p \in CasePairs } |-> (CHOOSE p \in CasePairs : p[1] = c)[2]]

LowerChar(c) == IF c \in DOMAIN LowerOf THEN LowerOf[c] ELSE c
UpperChar(c) == IF c \in DOMAIN UpperOf THEN UpperOf[c] ELSE c

\* String.prototype.toLowerCase / toUpperCase
RECURSIVE toLowerCase(_)
toLowerCase(s) == IF s = <<>> THEN <<>> ELSE <<LowerChar(Head(s))>> \o toLowerCase(Tail(s))

RECURSIVE toUpperCase(_)
toUpperCase(s) == IF s = <<>> THEN <<>> ELSE <<UpperChar(Head(s))>> \o toUpperCase(Tail(s))

\* String.prototype.includes
includes(s, sub) ==
    \E i \in 0..(Len(s) - Len(sub)) : SubSeq(s, i + 1, i + Len(sub)) = sub

\* String.prototype.startsWith
startsWith(s, pre) == Len(s) >= Len(pre) /\ SubSeq(s, 1, Len(pre)) = pre

\* String.prototype.trim
RECURSIVE trim(_)
trim(s) ==
    IF s = <<>> THEN s
    ELSE IF Head(s) = " " THEN trim(Tail(s))
    ELSE IF s[Len(s)] = " " THEN trim(SubSeq(s, 1, Len(s) - 1))
    ELSE s

Digit(d) == <<"0","1","2","3","4","5","6","7","8","9">>[d + 1]

\* String(n) for a non-negative integer
RECURSIVE NumStr(_)
NumStr(n) == IF n < 10 THEN <<Digit(n)>> ELSE NumStr(n \div 10) \o <<Digit(n % 10)>>

StrACTIVO == <<"A","C","T","I","V","O">>
StrActivoMixed == <<"A","c","t","i","v","o">>
StrActivoLower == <<"a","c","t","i","v","o">>
StrRESERVADO == <<"R","E","S","E","R","V","A","D","O">>
StrReservadoLower == <<"r","e","s","e","r","v","a","d","o">>
StrDakota == <<"D","a","k","o","t","a">>
StrDAKOTASUR == <<"D","A","K","O","T","A"," ","S","U","R">>
StrCentral == <<"C","e","n","t","r","a","l">>
StrNA == <<"N","/","A">>
StrBlank == <<" ">>

\* The reason texts of shouldOmitVehicle.
TxtNoStock ==
    <<"N","o"," ","t","i","e","n","e"," ","s","t","o","c","k"," ","a","c","t","i","v","o">>
TxtConcesionaria ==
    <<"C","o","n","c","e","s","i","o","n","a","r","i","a"," ","b","l","o","q","u","e","a","d","a",":"," ">>
TxtFiltro == <<" ","(","f","i","l","t","r","o",":"," ">>
TxtCampoLocation ==
    <<","," ","c","a","m","p","o",":"," ","l","o","c","a","t","i","o","n","_","n","a","m","e",")">>
TxtCampoBranch ==
    <<","," ","c","a","m","p","o",":"," ","b","r","a","n","c","h","_","o","f","f","i","c","e","_","n","a","m","e",")">>
TxtPrecio == <<"P","r","e","c","i","o"," ","(">>
TxtMenor ==
    <<")"," ","m","e","n","o","r"," ","o"," ","i","g","u","a","l"," ","a","l"," ","m","i_acute","n","i","m","o"," ","p","e","r","m","i","t","i","d","o"," ","(">>
TxtEstado == <<"E","s","t","a","d","o"," ","b","l","o","q","u","e","a","d","o",":"," ">>
TxtLicense ==
    <<"L","i","c","e","n","s","e"," ","p","l","a","t","e"," ","e","s"," ","N","U","L","L"," ","o"," ","v","a","c","i_acute","o">>
TxtNoImages ==
    <<"N","o"," ","t","i","e","n","e"," ","i","m","a_acute","g","e","n","e","s"," ","a","s","o","c","i","a","d","a","s"," ","(","R","E","Q","U","I","R","E","_","I","M","A","G","E","S","=","t","r","u","e",")">>

(***************************************************************************)
(* Filter Evaluator: VehicleFilters.shouldOmitVehicle                      *)
(***************************************************************************)
Min(S) == CHOOSE x \in S : \A y \in S : x <= y

\* vehicle.stocks?.find(stock => stock.status && stock.status.toUpperCase() === 'ACTIVO')
ActiveStockIdx(vehicle) ==
    { i \in DOMAIN vehicle.stocks :
        /\ ~Falsy(vehicle.stocks[i].status)
        /\ toUpperCase(vehicle.stocks[i].status) = StrACTIVO }

HasActiveStock(vehicle) == ActiveStockIdx(vehicle) # {}

ActiveStock(vehicle) == vehicle.stocks[Min(ActiveStockIdx(vehicle))]

\* The blocked offices whose lower-cased name is contained in the active
\* stock's location_name or branch_office_name (the loop of lines 37-53).
BlockedOfficeIdx(activeStock) ==
    LET locationName == toLowerCase(OrEmpty(activeStock.location_name))
        branchName == toLowerCase(OrEmpty(activeStock.branch_office_name))
    IN { i \in DOMAIN filterConfig.blockedBranchOffices :
            LET blockedLower == toLowerCase(filterConfig.blockedBranchOffices[i])
            IN includes(locationName, blockedLower) \/ includes(branchName, blockedLower) }

BlockedLocationReason(activeStock, blockedOffice) ==
    LET locationName == toLowerCase(OrEmpty(activeStock.location_name))
    IN IF includes(locationName, toLowerCase(blockedOffice))
       THEN TxtConcesionaria
              \o (IF Falsy(activeStock.location_name) THEN StrNA ELSE activeStock.location_name)
              \o TxtFiltro \o blockedOffice \o TxtCampoLocation
       ELSE TxtConcesionaria
              \o (IF Falsy(activeStock.branch_office_name) THEN StrNA
                  ELSE activeStock.branch_office_name)
              \o TxtFiltro \o blockedOffice \o TxtCampoBranch

\* parseFloat(String(vehicle.price?.list_price || 0)); list prices are whole
\* numbers here, and a record without a price carries list_price 0
ListPrice(vehicle) == vehicle.list_price

PriceReason(price) ==
    TxtPrecio \o NumStr(price) \o TxtMenor \o NumStr(filterConfig.minPrice) \o <<")">>

BlockedStatusIdx(activeStock) ==
    LET stockStatus == toLowerCase(OrEmpty(activeStock.status))
    IN { i \in DOMAIN filterConfig.blockedStatuses :
            stockStatus = toLowerCase(filterConfig.blockedStatuses[i]) }

BlockedStatusReason(activeStock, blockedStatus) ==
    TxtEstado \o activeStock.status \o TxtFiltro \o blockedStatus \o <<")">>

NoLicensePlate(vehicle) ==
    Falsy(vehicle.license_plate) \/ Len(trim(vehicle.license_plate)) = 0

\* vehicle.images.some(img => img.url && img.url.trim().length > 0)
HasImages(vehicle) ==
    \E i \in DOMAIN vehicle.images :
        ~Falsy(vehicle.images[i]) /\ Len(trim(vehicle.images[i])) > 0

Omit(reason) == [omit |-> TRUE, reason |-> reason]

\* The mutant of shouldOmitVehicle that admits every record.
shouldOmitVehicle_AdmitAll(vehicle) == [omit |-> FALSE, reason |-> NULL]

\* The mutant of shouldOmitVehicle that tests the price before the location.
shouldOmitVehicle_PriceFirst(vehicle) ==
    IF ~HasActiveStock(vehicle) THEN Omit(TxtNoStock)
    ELSE LET activeStock == ActiveStock(vehicle)
             offices == BlockedOfficeIdx(activeStock)
             statuses == BlockedStatusIdx(activeStock)
         IN IF ListPrice(vehicle) <= filterConfig.minPrice
            THEN Omit(PriceReason(ListPrice(vehicle)))
            ELSE IF offices # {}
            THEN Omit(BlockedLocationReason(activeStock,
                          filterConfig.blockedBranchOffices[Min(offices)]))
            ELSE IF statuses # {}
            THEN Omit(BlockedStatusReason(activeStock,
                          filterConfig.blockedStatuses[Min(statuses)]))
            ELSE IF NoLicensePlate(vehicle) THEN Omit(TxtLicense)
            ELSE IF filterConfig.requireImages /\ ~HasImages(vehicle) THEN Omit(TxtNoImages)
            ELSE [omit |-> FALSE, reason |-> NULL]

shouldOmitVehicle(vehicle) ==
    IF ~HasActiveStock(vehicle) THEN Omit(TxtNoStock)
    ELSE LET activeStock == ActiveStock(vehicle)
             offices == BlockedOfficeIdx(activeStock)
             statuses == BlockedStatusIdx(activeStock)
         IN IF offices # {}
            THEN Omit(BlockedLocationReason(activeStock,
                          filterConfig.blockedBranchOffices[Min(offices)]))
            ELSE IF ListPrice(vehicle) <= filterConfig.minPrice
            THEN Omit(PriceReason(ListPrice(vehicle)))
            ELSE IF statuses # {}
            THEN Omit(BlockedStatusReason(activeStock,
                          filterConfig.blockedStatuses[Min(statuses)]))
            ELSE IF NoLicensePlate(vehicle) THEN Omit(TxtLicense)
            ELSE IF filterConfig.requireImages /\ ~HasImages(vehicle) THEN Omit(TxtNoImages)
            ELSE [omit |-> FALSE, reason |-> NULL]

(***************************************************************************)
(* External records (AsofixVehicle) of the synchronisation runs            *)
(***************************************************************************)
Ids == {"v1", "v2"}

StrUrl1 == <<"u","/","t","h","-","1">>
StrUrl2 == <<"u","/","t","h","-","2">>

PlateOf(id) == IF id = "v1" THEN <<"A","B","1">> ELSE <<"a","b","2">>

OtherId(id) == IF id = "v1" THEN "v2" ELSE "v1"

\* ok: the scenario record (active stock, Central, price 5000, own plate, one image)
\* reserved: the same with its only stock entry RESERVADO
\* replate: admissible, but carrying the license plate of the other vehicle
Shapes == {"ok", "reserved", "replate"}

\* The records a catalog holds: either shape of either vehicle, and v2
\* registered under the plate of v1.
Entries ==
    { e \in [id : Ids, shape : Shapes] : e.shape = "replate" => e.id = "v2" }

\* The records the store specification reconciles besides: two images; the
\* second image twice; an image and a URL of one space; no image; a blocked
\* location; no transmission.
StoreShapes == {"ok", "two", "dup", "blankurl", "noimg", "dakota", "notrans"}

StrUsado == <<"U","s","a","d","o">>
Str0KM == <<"0","K","M">>
StrManual == <<"M","T">>

Rec(id, shape) ==
    [ id |-> id,
      version |-> "1.6",
      stocks |-> << [ status |-> IF shape = "reserved" THEN StrRESERVADO ELSE StrACTIVO,
                      location_name |-> IF shape = "dakota" THEN StrDAKOTASUR ELSE StrCentral,
                      branch_office_name |-> StrCentral ] >>,
      list_price |-> 5000,
      license_plate |-> IF shape = "replate" THEN PlateOf(OtherId(id)) ELSE PlateOf(id),
      images |-> CASE shape = "two" -> <<StrUrl1, StrUrl2>>
                   [] shape = "dup" -> <<StrUrl2, StrUrl2>>
                   [] shape = "blankurl" -> <<StrUrl1, StrBlank>>
                   [] shape = "noimg" -> <<>>
                   [] OTHER -> <<StrUrl1>>,
      car_condition |-> "used",
      car_transmission |-> IF shape = "notrans" THEN NULL ELSE StrManual ]

\* A feed entry names its record; the record itself is Rec(id, shape).
RecOf(e) == Rec(e.id, e.shape)

(***************************************************************************)
(* Local store                                                             *)
(***************************************************************************)
NoRow == [exists |-> FALSE]

\* An absent key of additional_data, an SQL NULL number, no row id, no hash.
NoTag == "none"
NoNumber == 0 - 1
NoId == ""
NoHash == [id |-> NoId, title |-> NoTag, price |-> NoNumber, license_plate |-> NULL,
           images_urls |-> <<>>, images_count |-> NoNumber, stock_status |-> NULL]

\* additional_data: the audit tags, the keep_published flag and, of the data
\* the upsert copies from the record, its version.
NoExtra == [filter_reason |-> NoTag, cleanup_verification |-> NoTag, archived_at |-> NoNumber,
            keep_published |-> FALSE, version |-> NoTag]

\* findVehicleByAsofixId: the row's id, or null (also when the SELECT fails)
findVehicleByAsofixId(db, asofixId, fails) ==
    IF fails THEN NoId
    ELSE IF asofixId \in Ids /\ db.vehicles[asofixId].exists THEN asofixId ELSE NoId

\* The reason bucket written as additional_data.filter_reason (lines 275-289).
FilterReasonBucket(reason) ==
    LET r == toLowerCase(OrEmpty(reason))
    IN IF includes(r, <<"d","a","k","o","t","a">>)
          \/ includes(r, <<"l","o","c","a","t","i","o","n","_","n","a","m","e">>)
       THEN "dakota_location"
       ELSE IF includes(r, <<"p","r","e","c","i","o">>) THEN "min_price"
       ELSE IF includes(r, <<"e","s","t","a","d","o">>) THEN "blocked_status"
       ELSE IF includes(r, <<"i","m","a","g","e","n">>) THEN "no_images"
       ELSE IF includes(r, <<"s","t","o","c","k">>) THEN "no_active_stock"
       ELSE "unknown"

\* (vehicle.images || []).map(img => img.url || '').filter(url => url)
ImageUrls(vehicle) == SelectSeq(vehicle.images, LAMBDA u : ~Falsy(u))

SeqToSet(s) == { s[i] : i \in DOMAIN s }

\* Array.prototype.sort() on the URLs used here: u/th-1 before u/th-2.
UrlRank(u) == IF u = StrUrl1 THEN 1 ELSE IF u = StrUrl2 THEN 2 ELSE 0

RECURSIVE SortUrls(_)
SortUrls(s) ==
    IF s = <<>> THEN <<>>
    ELSE LET m == Min({ UrlRank(s[i]) : i \in DOMAIN s })
             k == Min({ i \in DOMAIN s : UrlRank(s[i]) = m })
         IN <<s[k]>> \o SortUrls(SubSeq(s, 1, k - 1) \o SubSeq(s, k + 1, Len(s)))

\* The mutant of generateVersionHash that leaves out .sort().
generateVersionHash_Unsorted(vehicle) ==
    [ id |-> vehicle.id,
      title |-> vehicle.version,
      price |-> ListPrice(vehicle),
      license_plate |-> vehicle.license_plate,
      images_urls |-> ImageUrls(vehicle),
      images_count |-> Len(ImageUrls(vehicle)),
      stock_status |-> IF HasActiveStock(vehicle) THEN ActiveStock(vehicle).status ELSE <<>> ]

\* generateVersionHash: the digest is taken to be injective on the projection hashed.
generateVersionHash(vehicle) ==
    [ id |-> vehicle.id,
      title |-> vehicle.version,
      price |-> ListPrice(vehicle),
      license_plate |-> vehicle.license_plate,
      images_urls |-> SortUrls(ImageUrls(vehicle)),
      images_count |-> Len(ImageUrls(vehicle)),
      stock_status |-> IF HasActiveStock(vehicle) THEN ActiveStock(vehicle).status ELSE <<>> ]

\* savePendingImages: replace the vehicle's pending rows by imageUrls; when an
\* INSERT fails the DELETE has already been done and the error is swallowed.
savePendingImages(pend, vehicleId, imageUrls, fails) ==
    IF imageUrls = <<>> THEN pend
    ELSE LET kept == SelectSeq(pend, LAMBDA p : p.vehicle_id # vehicleId)
         IN IF fails THEN kept
            ELSE kept \o [i \in 1..Len(imageUrls) |->
                            [vehicle_id |-> vehicleId, image_url |-> imageUrls[i]]]

\* setVehicleMetadata: prices by currency and thresholds (no currency name here)
PriceUsd(vehicle) ==
    IF ListPrice(vehicle) >= 1000 /\ ListPrice(vehicle) <= 900000
    THEN ListPrice(vehicle) ELSE NoNumber

setVehicleMetadata(row, vehicle, t, fails) ==
    IF fails THEN row
    ELSE [row EXCEPT !.license_plate = IF Falsy(vehicle.license_plate) THEN NULL
                                       ELSE vehicle.license_plate,
                     !.price_usd = PriceUsd(vehicle),
                     !.updated_at = t]

(***************************************************************************)
(* Reconciler: processVehicle                                              *)
(*                                                                         *)
(* fp names the one statement of the call that fails with a database       *)
(* error ("none": no statement fails):                                     *)
(*   find1       the first findVehicleByAsofixId (caught, null)            *)
(*   archive     the SELECT/UPDATE of the archive branch (caught)          *)
(*   reactivate  the SELECT/UPDATE of the reactivation (caught)            *)
(*   needs       the SELECT of needsUpdate (caught, true)                  *)
(*   touch       UPDATE last_synced_at, outside any try: the call throws   *)
(*   find2       the second findVehicleByAsofixId (caught, null)           *)
(*   upsert      the UPDATE or INSERT of the vehicle row                   *)
(*   images      the image statements after the UPDATE of the row          *)
(*   savePending an INSERT of savePendingImages (caught there)             *)
(*   meta        the UPDATE of setVehicleMetadata (caught there)           *)
(***************************************************************************)
FailPoints == {"none", "find1", "archive", "reactivate", "needs", "touch",
               "find2", "upsert", "images", "savePending", "meta"}

\* What a call returns, the store it leaves, and the statements it executed
\* that wrote to the store ("needsError": the SELECT of needsUpdate failed).
Result(db, success, filtered, unchanged, wasNew, events) ==
    [db |-> db, threw |-> FALSE, success |-> success, filtered |-> filtered,
     unchanged |-> unchanged, wasNew |-> wasNew, events |-> events]

Threw(db, events) ==
    [db |-> db, threw |-> TRUE, success |-> FALSE, filtered |-> FALSE,
     unchanged |-> FALSE, wasNew |-> FALSE, events |-> events]

\* The mutant of the archive branch that also forgets the fingerprint.
ArchiveFiltered_ForgetsHash(db, existingId, reason, t) ==
    [db EXCEPT !.vehicles[existingId] =
        [@ EXCEPT !.status = "archived",
                  !.additional_data = [@ EXCEPT !.filter_reason = FilterReasonBucket(reason)],
                  !.updated_at = t,
                  !.version_hash = NoHash]]

\* The mutant of the archive branch that also empties the vehicle's queue.
ArchiveFiltered_DropsPending(db, existingId, reason, t) ==
    [db EXCEPT !.vehicles[existingId] =
                   [@ EXCEPT !.status = "archived",
                             !.additional_data =
                                 [@ EXCEPT !.filter_reason = FilterReasonBucket(reason)],
                             !.updated_at = t],
               !.pending = SelectSeq(@, LAMBDA p : p.vehicle_id # existingId)]

\* Lines 258-300: archive the existing row of an omitted record.
ArchiveFiltered(db, existingId, reason, t) ==
    [db EXCEPT !.vehicles[existingId] =
        [@ EXCEPT !.status = "archived",
                  !.additional_data = [@ EXCEPT !.filter_reason = FilterReasonBucket(reason)],
                  !.updated_at = t]]

\* Lines 303-333: publish an archived row again, without its filter_reason.
Reactivate(db, existingId, t) ==
    IF db.vehicles[existingId].status = "archived"
    THEN [db EXCEPT !.vehicles[existingId] =
            [@ EXCEPT !.status = "published",
                      !.additional_data = [@ EXCEPT !.filter_reason = NoTag],
                      !.updated_at = t]]
    ELSE db

\* Lines 343-346; updated_at follows by ON UPDATE CURRENT_TIMESTAMP when the
\* statement changes the row.
TouchLastSynced(db, asofixId, t) ==
    IF db.vehicles[asofixId].last_synced_at = t THEN db
    ELSE [db EXCEPT !.vehicles[asofixId] = [@ EXCEPT !.last_synced_at = t, !.updated_at = t]]

\* Lines 385-397: the UPDATE of an existing row.
UpdateRow(row, vehicle, versionHash, t) ==
    [row EXCEPT !.title = vehicle.version,
                !.status = "published",
                !.version_hash = versionHash,
                !.last_synced_at = t,
                !.additional_data = [NoExtra EXCEPT !.version = vehicle.version],
                !.updated_at = t]

\* Lines 441-446: the INSERT of a new row.
InsertRow(vehicle, versionHash, t) ==
    [exists |-> TRUE, status |-> "published", title |-> vehicle.version,
     license_plate |-> NULL, price_usd |-> NoNumber, featured_image_id |-> NoNumber,
     updated_at |-> t, last_synced_at |-> t, version_hash |-> versionHash,
     additional_data |-> [NoExtra EXCEPT !.version = vehicle.version]]

\* The mutant of ReconcileImages that enqueues every URL of the record.
ReconcileImages_EnqueueAll(db, vehicleId, vehicle, fp) ==
    [ db |-> [db EXCEPT !.pending = savePendingImages(@, vehicleId, ImageUrls(vehicle), FALSE)],
      events |-> {"enqueue"} ]

\* Lines 400-438: delete the stored images whose URL left the record (the
\* featured reference is SET NULL with its image), enqueue the URLs not stored.
ReconcileImages(db, vehicleId, vehicle, fp) ==
    LET newImageUrls == ImageUrls(vehicle)
        existingUrls == { im.image_url : im \in { x \in db.images : x.vehicle_id = vehicleId } }
        gone == { im \in db.images :
                    im.vehicle_id = vehicleId /\ im.image_url \notin SeqToSet(newImageUrls) }
        urlsToAdd == SelectSeq(newImageUrls, LAMBDA u : u \notin existingUrls)
        row == db.vehicles[vehicleId]
        vs == [db.vehicles EXCEPT ![vehicleId] =
                 IF row.featured_image_id \in { im.id : im \in gone }
                 THEN [row EXCEPT !.featured_image_id = NoNumber] ELSE row]
    IN [ db |-> [ vehicles |-> vs,
                  images |-> db.images \ gone,
                  pending |-> IF urlsToAdd # <<>>
                              THEN savePendingImages(db.pending, vehicleId, urlsToAdd,
                                                     fp = "savePending")
                              ELSE SelectSeq(db.pending, LAMBDA p : p.vehicle_id # vehicleId),
                  taxonomies |-> db.taxonomies ],
         events |-> (IF gone # {} THEN {"deleteImages"} ELSE {})
                    \cup (IF urlsToAdd # <<>> THEN {"enqueue"} ELSE {"clearPending"}) ]

\* Lines 78-86: the term name of each category (two of the seven are kept).
TaxonomyMap(vehicle) ==
    [ condition |-> IF vehicle.car_condition = "new" THEN Str0KM ELSE StrUsado,
      transmission |-> IF Falsy(vehicle.car_transmission) THEN NULL
                       ELSE vehicle.car_transmission ]

\* Lines 49-72: the term of a name, the name trimmed (taxonomy_terms is
\* unique on taxonomy and name); null for a blank name.
getOrCreateTerm(termName) ==
    IF Falsy(termName) \/ Len(trim(termName)) = 0 THEN NULL ELSE trim(termName)

\* Lines 89-105: one category of assignTaxonomies.
AssignTerm(tax, vehicleId, taxonomy, termName) ==
    LET termId == IF Falsy(termName) THEN NULL ELSE getOrCreateTerm(termName)
    IN IF termId = NULL THEN tax
       ELSE { x \in tax : ~(x.vehicle_id = vehicleId /\ x.taxonomy = taxonomy) }
            \cup {[vehicle_id |-> vehicleId, taxonomy |-> taxonomy, term |-> termId]}

\* Lines 77-107.
assignTaxonomies(tax, vehicleId, vehicle) ==
    AssignTerm(AssignTerm(tax, vehicleId, "condition", TaxonomyMap(vehicle).condition),
               vehicleId, "transmission", TaxonomyMap(vehicle).transmission)

\* Lines 376-474: the write path of an admitted record.
Upsert(db, vehicle, versionHash, fp, t) ==
    LET asofixId == vehicle.id
        existingId == findVehicleByAsofixId(db, asofixId, fp = "find2")
        metaEvents == IF fp = "meta" THEN {} ELSE {"meta"}
    IN IF existingId # NoId
       THEN IF fp = "upsert" THEN Result(db, FALSE, FALSE, FALSE, FALSE, {})
            ELSE LET db1 == [db EXCEPT !.vehicles[existingId] =
                                UpdateRow(@, vehicle, versionHash, t)]
                 IN IF fp = "images" THEN Result(db1, FALSE, FALSE, FALSE, FALSE, {"update"})
                    ELSE LET ri == ReconcileImages(db1, existingId, vehicle, fp)
                             db3 == [ri.db EXCEPT
                                       !.taxonomies = assignTaxonomies(@, existingId, vehicle),
                                       !.vehicles[existingId] =
                                           setVehicleMetadata(@, vehicle, t, fp = "meta")]
                         IN Result(db3, TRUE, FALSE, FALSE, FALSE,
                                   {"update", "taxonomy"} \cup ri.events \cup metaEvents)
       ELSE IF db.vehicles[asofixId].exists \/ fp = "upsert"
            \* the INSERT fails: on the unique key asofix_id, or by the injected error
            THEN Result(db, FALSE, FALSE, FALSE, FALSE, {})
            ELSE LET row == setVehicleMetadata(InsertRow(vehicle, versionHash, t),
                                               vehicle, t, fp = "meta")
                     db1 == [db EXCEPT !.vehicles[asofixId] = row,
                                       !.taxonomies = assignTaxonomies(@, asofixId, vehicle)]
                     db2 == [db1 EXCEPT !.pending =
                                savePendingImages(@, asofixId, ImageUrls(vehicle),
                                                  fp = "savePending")]
                 IN Result(db2, TRUE, FALSE, FALSE, TRUE,
                           {"insert", "taxonomy"} \cup metaEvents
                           \cup (IF ImageUrls(vehicle) # <<>> THEN {"enqueue"} ELSE {}))

\* The mutant of needsUpdate that never finds a record unchanged.
needsUpdate_Always(db, asofixId, newHash, fails) == TRUE

\* needsUpdate: true for a new vehicle, a changed hash, or a failed SELECT
needsUpdate(db, asofixId, newHash, fails) ==
    IF fails THEN TRUE
    ELSE IF ~db.vehicles[asofixId].exists THEN TRUE
    ELSE db.vehicles[asofixId].version_hash # newHash

\* The mutant of processVehicle that keeps an archived row for an omitted
\* record it has no vehicle for.
processVehicle_ArchivesUnknown(db, vehicle, incr, fp, t) ==
    LET asofixId == vehicle.id
        filt == shouldOmitVehicle(vehicle)
        existingId == findVehicleByAsofixId(db, asofixId, fp = "find1")
        versionHash == generateVersionHash(vehicle)
    IN IF asofixId = NoId THEN Result(db, FALSE, FALSE, FALSE, FALSE, {})
       ELSE IF filt.omit
       THEN IF existingId # NoId /\ fp # "archive"
            THEN Result(ArchiveFiltered(db, existingId, filt.reason, t),
                        TRUE, TRUE, FALSE, FALSE, {"archive"})
            ELSE Result([db EXCEPT !.vehicles[asofixId] =
                             [InsertRow(vehicle, versionHash, t) EXCEPT !.status = "archived"]],
                        TRUE, TRUE, FALSE, FALSE, {"insert"})
       ELSE LET db1 == IF existingId # NoId /\ fp # "reactivate"
                       THEN Reactivate(db, existingId, t) ELSE db
                ev1 == (IF db1 # db THEN {"reactivate"} ELSE {})
                       \cup (IF incr /\ fp = "needs" THEN {"needsError"} ELSE {})
            IN IF incr /\ ~needsUpdate(db1, asofixId, versionHash, fp = "needs")
               THEN IF fp = "touch" THEN Threw(db1, ev1)
                    ELSE Result(TouchLastSynced(db1, asofixId, t), TRUE, FALSE, TRUE, FALSE,
                                ev1 \cup {"touch"})
               ELSE LET r == Upsert(db1, vehicle, versionHash, fp, t)
                    IN [r EXCEPT !.events = @ \cup ev1]

\* processVehicle: one record reconciled against the local store.
processVehicle(db, vehicle, incr, fp, t) ==
    LET asofixId == vehicle.id
        filt == shouldOmitVehicle(vehicle)
        existingId == findVehicleByAsofixId(db, asofixId, fp = "find1")
        versionHash == generateVersionHash(vehicle)
    IN IF asofixId = NoId THEN Result(db, FALSE, FALSE, FALSE, FALSE, {})
       ELSE IF filt.omit
       THEN IF existingId # NoId /\ fp # "archive"
            THEN Result(ArchiveFiltered(db, existingId, filt.reason, t),
                        TRUE, TRUE, FALSE, FALSE, {"archive"})
            ELSE Result(db, TRUE, TRUE, FALSE, FALSE, {})
       ELSE LET db1 == IF existingId # NoId /\ fp # "reactivate"
                       THEN Reactivate(db, existingId, t) ELSE db
                ev1 == (IF db1 # db THEN {"reactivate"} ELSE {})
                       \cup (IF incr /\ fp = "needs" THEN {"needsError"} ELSE {})
            IN IF incr /\ ~needsUpdate(db1, asofixId, versionHash, fp = "needs")
               THEN IF fp = "touch" THEN Threw(db1, ev1)
                    ELSE Result(TouchLastSynced(db1, asofixId, t), TRUE, FALSE, TRUE, FALSE,
                                ev1 \cup {"touch"})
               ELSE LET r == Upsert(db1, vehicle, versionHash, fp, t)
                    IN [r EXCEPT !.events = @ \cup ev1]

(***************************************************************************)
(* Catalog Client: getVehiclesPage and getVehicleByLicensePlate            *)
(***************************************************************************)
\* The page-th page of size records of the catalog, with its meta block.
ApiPage(catalog, page, size) ==
    LET n == Len(catalog)
        first == (page - 1) * size + 1
        last == IF page * size < n THEN page * size ELSE n
    IN [ data |-> IF first > n THEN <<>> ELSE SubSeq(catalog, first, last),
         current_page |-> page,
         total_pages |-> (n + size - 1) \div size ]

\* meta.current_page < meta.total_pages, or "the page was not empty" when the
\* meta block has a zero in it (lines 598 of sync-service, 219-227 of asofix-api)
HasMore(p) ==
    IF p.current_page # 0 /\ p.total_pages # 0
    THEN p.current_page < p.total_pages
    ELSE p.data # <<>>

\* Page size of the lookup's requests (100 in the code), its page budget
\* (ASOFIX_SEARCH_MAX_PAGES, 500 by default) and its circuit breaker.
SearchPerPage == 1
MaxSearchPages == 3
maxConsecutiveErrors == 3

\* vehicle.license_plate.trim().toUpperCase() === normalizedLicensePlate
PlateMatches(e, normalized) ==
    /\ ~Falsy(RecOf(e).license_plate)
    /\ toUpperCase(trim(RecOf(e).license_plate)) = normalized

NotFound == [id |-> NoId, shape |-> "none"]

LookupThrew == [found |-> NotFound, requests |-> 0, errors |-> 0, tripped |-> FALSE,
                threw |-> TRUE]

\* The while loop of getVehicleByLicensePlate from its r-th request on; failSet
\* holds the numbers of the requests that fail.
RECURSIVE Search(_, _, _, _, _, _, _, _)
Search(catalog, normalized, failSet, r, currentPage, pagesSearched, consecutiveErrors, errors) ==
    IF pagesSearched >= MaxSearchPages
    THEN [found |-> NotFound, requests |-> r - 1, errors |-> errors, tripped |-> FALSE,
          threw |-> FALSE]
    ELSE IF r \in failSet
    THEN IF consecutiveErrors + 1 >= maxConsecutiveErrors
         THEN [found |-> NotFound, requests |-> r, errors |-> errors + 1, tripped |-> TRUE,
               threw |-> FALSE]
         ELSE Search(catalog, normalized, failSet, r + 1, currentPage + 1,
                     pagesSearched + 1, consecutiveErrors + 1, errors + 1)
    ELSE LET p == ApiPage(catalog, currentPage, SearchPerPage)
             hits == { i \in DOMAIN p.data : PlateMatches(p.data[i], normalized) }
         IN IF hits # {}
            THEN [found |-> p.data[Min(hits)], requests |-> r, errors |-> errors,
                  tripped |-> FALSE, threw |-> FALSE]
            ELSE IF HasMore(p)
            THEN Search(catalog, normalized, failSet, r + 1, currentPage + 1,
                        pagesSearched + 1, 0, errors)
            ELSE [found |-> NotFound, requests |-> r, errors |-> errors, tripped |-> FALSE,
                  threw |-> FALSE]

\* The mutant of the while loop that does not test pagesSearched < maxPages.
RECURSIVE Search_NoBudget(_, _, _, _, _, _, _, _)
Search_NoBudget(catalog, normalized, failSet, r, currentPage, pagesSearched, consecutiveErrors,
                errors) ==
    IF r \in failSet
    THEN IF consecutiveErrors + 1 >= maxConsecutiveErrors
         THEN [found |-> NotFound, requests |-> r, errors |-> errors + 1, tripped |-> TRUE,
               threw |-> FALSE]
         ELSE Search_NoBudget(catalog, normalized, failSet, r + 1, currentPage + 1,
                              pagesSearched + 1, consecutiveErrors + 1, errors + 1)
    ELSE LET p == ApiPage(catalog, currentPage, SearchPerPage)
             hits == { i \in DOMAIN p.data : PlateMatches(p.data[i], normalized) }
         IN IF hits # {}
            THEN [found |-> p.data[Min(hits)], requests |-> r, errors |-> errors,
                  tripped |-> FALSE, threw |-> FALSE]
            ELSE IF HasMore(p)
            THEN Search_NoBudget(catalog, normalized, failSet, r + 1, currentPage + 1,
                                 pagesSearched + 1, 0, errors)
            ELSE [found |-> NotFound, requests |-> r, errors |-> errors, tripped |-> FALSE,
                  threw |-> FALSE]

getVehicleByLicensePlate_NoBudget(catalog, licensePlate, failSet) ==
    IF ~apiKey THEN LookupThrew
    ELSE Search_NoBudget(catalog, toUpperCase(trim(licensePlate)), failSet, 1, 1, 0, 0, 0)

\* getVehicleByLicensePlate, called with a non-blank plate: it throws at once
\* without the API key (lines 178-180); a failing page request throws inside
\* the loop's own try and is counted there, so nothing else reaches the caller.
getVehicleByLicensePlate(catalog, licensePlate, failSet) ==
    IF ~apiKey THEN LookupThrew
    ELSE Search(catalog, toUpperCase(trim(licensePlate)), failSet, 1, 1, 0, 0, 0)

FailSets == SUBSET (1..MaxSearchPages)

(***************************************************************************)
(* SyncLogger: the audit rows of table sync_logs                           *)
(***************************************************************************)
\* The table without rows, and the store that has no such table.
NoLogs == [exists |-> TRUE, rows |-> <<>>]
NoTable == [exists |-> FALSE, rows |-> <<>>]

\* logSyncStart: the INSERT of a row with status running and the id it
\* returns; null when the INSERT fails, as it does without the table.
logSyncStart(logs) ==
    IF ~logs.exists THEN [logs |-> logs, id |-> NoNumber]
    ELSE [logs |-> [logs EXCEPT !.rows = Append(@, [status |-> "running",
                                                     errors_count |-> 0])],
          id |-> Len(logs.rows) + 1]

\* logSyncComplete: nothing without an id; an UPDATE that fails is swallowed.
logSyncComplete(logs, syncLogId, errorsCount, ok) ==
    IF syncLogId = NoNumber \/ ~ok THEN logs
    ELSE [logs EXCEPT !.rows[syncLogId] =
            [status |-> "completed", errors_count |-> errorsCount]]

\* logSyncFailed: as logSyncComplete, with stats.errors_count || 1.
logSyncFailed(logs, syncLogId, errorsCount, ok) ==
    IF syncLogId = NoNumber \/ ~ok THEN logs
    ELSE [logs EXCEPT !.rows[syncLogId] =
            [status |-> "failed",
             errors_count |-> IF errorsCount = 0 THEN 1 ELSE errorsCount]]

\* The mutant of logSyncEnd that marks every run completed.
logSyncEnd_AlwaysComplete(logs, syncLogId, fase1Errors, fase2Errors, ok) ==
    logSyncComplete(logs, syncLogId, fase1Errors + fase2Errors, ok)

\* Lines 1305-1329: the end of syncAll finalizes the row of the run.
logSyncEnd(logs, syncLogId, fase1Errors, fase2Errors, ok) ==
    IF fase1Errors = 0 /\ fase2Errors = 0
    THEN logSyncComplete(logs, syncLogId, fase1Errors + fase2Errors, ok)
    ELSE logSyncFailed(logs, syncLogId, fase1Errors + fase2Errors, ok)

(***************************************************************************)
(* Sync Orchestrator: syncAll                                              *)
(***************************************************************************)
maxRetries == 3

\* The mutant of the grace window that has no width.
GraceHours_Zero == 48 - 48

GraceHours == 48
ReactivationWindowHours == 720

DB == [vehicles |-> vehicles, images |-> images, pending |-> pending,
       taxonomies |-> taxonomies]

\* The local variables of syncAll, and (from publishedAtStart on) the history
\* of the run that the properties read.
InitRun ==
    [ all |-> <<>>, currentPage |-> 1, hasMore |-> TRUE,
      i |-> 1, retryCount |-> 0,
      fase1Processed |-> 0, fase1Errors |-> 0, fase1Archived |-> 0, fase2Errors |-> 0,
      validVehicleIds |-> {},
      list |-> <<>>, k |-> 1,
      publishedAtStart |-> {},
      firstPageFailed |-> FALSE,
      failedPage |-> 0,
      syncLogId |-> NoNumber,
      requested |-> {},
      writeFailed |-> {},
      handled |-> {},
      cleanupReached |-> FALSE,
      cleanupEntered |-> FALSE,
      validAtCleanup |-> {},
      publishedAtCleanup |-> {},
      updatedAtCleanup |-> [id \in Ids |-> NoNumber],
      examined |-> {},
      lookedUp |-> {},
      apiResult |-> [id \in Ids |-> NotFound],
      lookupTripped |-> {},
      reactivated |-> {},
      archivedByReconcile |-> {},
      archivedByCleanup |-> {},
      archiveFailed |-> {} ]

Published(vs) == { id \in Ids : vs[id].exists /\ vs[id].status = "published" }
Archived(vs) == { id \in Ids : vs[id].exists /\ vs[id].status = "archived" }

\* The sequences that list the members of S once each.
Orders(S) == { q \in [1..Cardinality(S) -> S] : \A a \in S : \E j \in DOMAIN q : q[j] = a }

\* The mutant of StartRun that gives the run up when logSyncStart returned no id.
StartRun_NeedsLog(f) ==
    /\ pc = "idle"
    /\ feed' = f
    /\ LET started == logSyncStart(syncLogs)
       IN /\ syncLogs' = started.logs
          /\ run' = [InitRun EXCEPT !.publishedAtStart = Published(vehicles),
                                    !.syncLogId = started.id]
          /\ pc' = IF started.id = NoNumber THEN "done" ELSE "fetch"
    /\ UNCHANGED <<filterConfig, fvehicle, fresult, apiKey, limit, perPage, incremental, now,
                   vehicles, images, pending, taxonomies>>

\* Lines 701-743: a run starts; the catalog it will page over is f.
StartRun(f) ==
    /\ pc = "idle"
    /\ feed' = f
    /\ LET started == logSyncStart(syncLogs)
       IN /\ syncLogs' = started.logs
          /\ run' = [InitRun EXCEPT !.publishedAtStart = Published(vehicles),
                                    !.syncLogId = started.id]
    /\ pc' = "fetch"
    /\ UNCHANGED <<filterConfig, fvehicle, fresult, apiKey, limit, perPage, incremental, now,
                   vehicles, images, pending, taxonomies>>

FetchGuard == run.hasMore /\ (limit = 0 \/ Len(run.all) < limit)

\* The mutant of FetchPage that drops the pages already fetched when a page fails.
FetchPage_DropsFetched(ok) ==
    /\ pc = "fetch"
    /\ FetchGuard
    /\ ok => apiKey
    /\ IF ok
       THEN LET p == ApiPage(feed, run.currentPage, perPage)
            IN run' = IF p.data = <<>>
                      THEN [run EXCEPT !.hasMore = FALSE,
                                       !.requested = @ \cup {run.currentPage}]
                      ELSE [run EXCEPT !.hasMore = HasMore(p),
                                       !.all = @ \o p.data,
                                       !.requested = @ \cup {run.currentPage},
                                       !.currentPage = @ + 1]
       ELSE run' = [run EXCEPT !.fase1Errors = @ + 1,
                               !.hasMore = FALSE,
                               !.all = <<>>,
                               !.firstPageFailed = (run.currentPage = 1),
                               !.failedPage = run.currentPage,
                               !.requested = @ \cup {run.currentPage}]
    /\ UNCHANGED <<syncLogs, filterConfig, fvehicle, fresult, apiKey, limit, perPage, incremental, now, feed,
                   vehicles, images, pending, taxonomies, pc>>

\* Lines 757-799: one iteration of the fetch loop. An empty page leaves the
\* loop by break, which is hasMore = false for all that follows. requested
\* and failedPage record the pages asked for and the page whose request failed.
FetchPage(ok) ==
    /\ pc = "fetch"
    /\ FetchGuard
    /\ ok => apiKey
    /\ IF ok
       THEN LET p == ApiPage(feed, run.currentPage, perPage)
            IN run' = IF p.data = <<>>
                      THEN [run EXCEPT !.hasMore = FALSE,
                                       !.requested = @ \cup {run.currentPage}]
                      ELSE [run EXCEPT !.hasMore = HasMore(p),
                                       !.all = @ \o p.data,
                                       !.requested = @ \cup {run.currentPage},
                                       !.currentPage = @ + 1]
       ELSE run' = [run EXCEPT !.fase1Errors = @ + 1,
                               !.hasMore = FALSE,
                               !.firstPageFailed = (run.currentPage = 1),
                               !.failedPage = run.currentPage,
                               !.requested = @ \cup {run.currentPage}]
    /\ UNCHANGED <<syncLogs, filterConfig, fvehicle, fresult, apiKey, limit, perPage, incremental, now, feed,
                   vehicles, images, pending, taxonomies, pc>>

FetchDone ==
    /\ pc = "fetch"
    /\ ~FetchGuard
    /\ pc' = "reconcile"
    /\ UNCHANGED <<syncLogs, filterConfig, fvehicle, fresult, apiKey, limit, perPage, incremental, now, feed,
                   vehicles, images, pending, taxonomies, run>>

\* The mutant of LimitHit under which the record limit never stops the loop.
LimitHit_Never == FALSE

\* Lines 832-839: the loop stops once as many records as the limit were written.
LimitHit == limit > 0 /\ run.fase1Processed >= limit

\* The mutant of TrackOnError that forgets the record whose write failed.
TrackOnError_Never(valid, omit, asofixId) == valid

\* Lines 903-933: a record that failed is still tracked when the filter admits it.
TrackOnError(valid, omit, asofixId) == IF ~omit THEN valid \cup {asofixId} ELSE valid

\* The mutant of ProcessRecord that leaves the loop at the first record that is
\* rejected or fails.
ProcessRecord_StopsOnError(fp) ==
    /\ pc = "reconcile"
    /\ run.i <= Len(run.all)
    /\ ~LimitHit
    /\ LET e == run.all[run.i]
           vehicle == RecOf(e)
           asofixId == vehicle.id
           before == vehicles[asofixId]
           res == processVehicle(DB, vehicle, incremental, fp, now)
           omit == shouldOmitVehicle(vehicle).omit
           after == res.db.vehicles[asofixId]
           hist == [run EXCEPT
                      !.archivedByReconcile =
                          IF before.exists /\ before.status = "published"
                             /\ after.status = "archived"
                          THEN @ \cup {asofixId} ELSE @]
       IN /\ vehicles' = res.db.vehicles
          /\ images' = res.db.images
          /\ pending' = res.db.pending
          /\ taxonomies' = res.db.taxonomies
          /\ IF res.threw
             THEN IF run.retryCount + 1 >= maxRetries
                  THEN run' = [hist EXCEPT
                                 !.fase1Errors = @ + 1,
                                 !.validVehicleIds = TrackOnError(@, omit, asofixId),
                                 !.writeFailed = @ \cup {asofixId},
                                 !.handled = @ \cup {run.i},
                                 !.retryCount = 0,
                                 !.i = Len(run.all) + 1]
                  ELSE run' = [hist EXCEPT !.retryCount = @ + 1]
             ELSE run' = [hist EXCEPT
                            !.validVehicleIds =
                                IF res.success /\ ~res.filtered THEN @ \cup {asofixId}
                                ELSE IF ~res.success THEN TrackOnError(@, omit, asofixId)
                                ELSE @,
                            !.writeFailed = IF res.success THEN @ ELSE @ \cup {asofixId},
                            !.fase1Processed =
                                IF res.success /\ ~res.filtered /\ ~res.unchanged
                                THEN @ + 1 ELSE @,
                            !.fase1Errors = IF res.success THEN @ ELSE @ + 1,
                            !.handled = @ \cup {run.i},
                            !.retryCount = 0,
                            !.i = IF res.success /\ ~res.filtered
                                  THEN @ + 1 ELSE Len(run.all) + 1]
    /\ UNCHANGED <<syncLogs, filterConfig, fvehicle, fresult, apiKey, limit, perPage, incremental, now, feed, pc>>

\* The mutant of ProcessRecord that tracks the records the filter rejected as well.
ProcessRecord_TracksFiltered(fp) ==
    /\ pc = "reconcile"
    /\ run.i <= Len(run.all)
    /\ ~LimitHit
    /\ LET e == run.all[run.i]
           vehicle == RecOf(e)
           asofixId == vehicle.id
           before == vehicles[asofixId]
           res == processVehicle(DB, vehicle, incremental, fp, now)
           omit == shouldOmitVehicle(vehicle).omit
           after == res.db.vehicles[asofixId]
           hist == [run EXCEPT
                      !.archivedByReconcile =
                          IF before.exists /\ before.status = "published"
                             /\ after.status = "archived"
                          THEN @ \cup {asofixId} ELSE @]
       IN /\ vehicles' = res.db.vehicles
          /\ images' = res.db.images
          /\ pending' = res.db.pending
          /\ taxonomies' = res.db.taxonomies
          /\ IF res.threw
             THEN IF run.retryCount + 1 >= maxRetries
                  THEN run' = [hist EXCEPT
                                 !.fase1Errors = @ + 1,
                                 !.validVehicleIds = TrackOnError(@, omit, asofixId),
                                 !.writeFailed = @ \cup {asofixId},
                                 !.handled = @ \cup {run.i},
                                 !.retryCount = 0,
                                 !.i = @ + 1]
                  ELSE run' = [hist EXCEPT !.retryCount = @ + 1]
             ELSE run' = [hist EXCEPT
                            !.validVehicleIds =
                                IF res.success THEN @ \cup {asofixId}
                                ELSE IF ~res.success THEN TrackOnError(@, omit, asofixId)
                                ELSE @,
                            !.writeFailed = IF res.success THEN @ ELSE @ \cup {asofixId},
                            !.fase1Processed =
                                IF res.success /\ ~res.filtered /\ ~res.unchanged
                                THEN @ + 1 ELSE @,
                            !.fase1Errors = IF res.success THEN @ ELSE @ + 1,
                            !.handled = @ \cup {run.i},
                            !.retryCount = 0,
                            !.i = @ + 1]
    /\ UNCHANGED <<syncLogs, filterConfig, fvehicle, fresult, apiKey, limit, perPage, incremental, now, feed, pc>>

\* Lines 841-940: one attempt of processVehicle on the next record, and what
\* the loop does with its result or its exception.
ProcessRecord(fp) ==
    /\ pc = "reconcile"
    /\ run.i <= Len(run.all)
    /\ ~LimitHit
    /\ LET e == run.all[run.i]
           vehicle == RecOf(e)
           asofixId == vehicle.id
           before == vehicles[asofixId]
           res == processVehicle(DB, vehicle, incremental, fp, now)
           omit == shouldOmitVehicle(vehicle).omit
           after == res.db.vehicles[asofixId]
           hist == [run EXCEPT
                      !.archivedByReconcile =
                          IF before.exists /\ before.status = "published"
                             /\ after.status = "archived"
                          THEN @ \cup {asofixId} ELSE @]
       IN /\ vehicles' = res.db.vehicles
          /\ images' = res.db.images
          /\ pending' = res.db.pending
          /\ taxonomies' = res.db.taxonomies
          /\ IF res.threw
             THEN IF run.retryCount + 1 >= maxRetries
                  THEN run' = [hist EXCEPT
                                 !.fase1Errors = @ + 1,
                                 !.validVehicleIds = TrackOnError(@, omit, asofixId),
                                 !.writeFailed = @ \cup {asofixId},
                                 !.handled = @ \cup {run.i},
                                 !.retryCount = 0,
                                 !.i = @ + 1]
                  ELSE run' = [hist EXCEPT !.retryCount = @ + 1]
             ELSE run' = [hist EXCEPT
                            !.validVehicleIds =
                                IF res.success /\ ~res.filtered THEN @ \cup {asofixId}
                                ELSE IF ~res.success THEN TrackOnError(@, omit, asofixId)
                                ELSE @,
                            !.writeFailed = IF res.success THEN @ ELSE @ \cup {asofixId},
                            !.fase1Processed =
                                IF res.success /\ ~res.filtered /\ ~res.unchanged
                                THEN @ + 1 ELSE @,
                            !.fase1Errors = IF res.success THEN @ ELSE @ + 1,
                            !.handled = @ \cup {run.i},
                            !.retryCount = 0,
                            !.i = @ + 1]
    /\ UNCHANGED <<syncLogs, filterConfig, fvehicle, fresult, apiKey, limit, perPage, incremental, now, feed, pc>>

\* Lines 832-839: the record limit is reached; no later record is processed.
LimitReached ==
    /\ pc = "reconcile"
    /\ run.i <= Len(run.all)
    /\ LimitHit
    /\ run' = [run EXCEPT !.i = Len(run.all) + 1]
    /\ UNCHANGED <<syncLogs, filterConfig, fvehicle, fresult, apiKey, limit, perPage, incremental, now, feed,
                   vehicles, images, pending, taxonomies, pc>>

\* Lines 966-981: the archived vehicles the reactivation phase re-checks.
ReactivationRows ==
    { id \in Archived(vehicles) :
        /\ vehicles[id].license_plate # NULL
        /\ vehicles[id].license_plate # <<>>
        /\ \/ vehicles[id].additional_data.filter_reason
                    \in {"not_in_valid_set", "no_encontrado_en_api"}
           \/ vehicles[id].additional_data.cleanup_verification # NoTag
           \/ vehicles[id].updated_at > now - ReactivationWindowHours }

UpdatedDesc(q) == \A a, b \in DOMAIN q : a < b => vehicles[q[a]].updated_at >= vehicles[q[b]].updated_at

\* The reconcile loop is over; the reactivation phase runs its query, which
\* fails (and the phase is skipped, lines 1068-1075) when dbOk is false.
ReconcileDone(q, dbOk) ==
    /\ pc = "reconcile"
    /\ run.i > Len(run.all)
    /\ q \in Orders(ReactivationRows)
    /\ UpdatedDesc(q)
    /\ run' = [run EXCEPT !.list = IF dbOk THEN q ELSE <<>>, !.k = 1]
    /\ pc' = "reactivate"
    /\ UNCHANGED <<syncLogs, filterConfig, fvehicle, fresult, apiKey, limit, perPage, incremental, now, feed,
                   vehicles, images, pending, taxonomies>>

\* Lines 1005-1026: publish the row again without its audit tags.
ReactivateRow(row, t) ==
    [row EXCEPT !.status = "published",
                !.additional_data = [@ EXCEPT !.filter_reason = NoTag,
                                              !.cleanup_verification = NoTag,
                                              !.archived_at = NoNumber],
                !.updated_at = t]

\* Lines 987-1044: one archived vehicle of the reactivation phase.
ReactivateOne(failSet, dbOk) ==
    /\ pc = "reactivate"
    /\ run.k <= Len(run.list)
    /\ LET id == run.list[run.k]
           licensePlate == vehicles[id].license_plate
           res == getVehicleByLicensePlate(feed, licensePlate, failSet)
           api == res.found
           valid == /\ Len(trim(licensePlate)) > 0
                    /\ ~res.threw
                    /\ api # NotFound
                    /\ api.id = id
                    /\ ~shouldOmitVehicle(RecOf(api)).omit
       IN IF valid /\ dbOk
          THEN /\ vehicles' = [vehicles EXCEPT ![id] = ReactivateRow(@, now)]
               /\ run' = [run EXCEPT !.validVehicleIds = @ \cup {id},
                                     !.reactivated = @ \cup {id},
                                     !.k = @ + 1]
          ELSE /\ vehicles' = vehicles
               /\ run' = [run EXCEPT !.k = @ + 1]
    /\ UNCHANGED <<syncLogs, filterConfig, fvehicle, fresult, apiKey, limit, perPage, incremental, now, feed,
                   images, pending, taxonomies, pc>>

\* Lines 1102-1110: the published vehicles outside the tracker whose last
\* update is older than the grace window.
CleanupRows ==
    { id \in Published(vehicles) :
        /\ id \notin run.validVehicleIds
        /\ vehicles[id].updated_at < now - GraceHours }

\* The mutant of StartCleanup that runs the query whatever the tracker holds.
StartCleanup_Always(q, dbOk) ==
    /\ pc = "reactivate"
    /\ run.k > Len(run.list)
    /\ q \in Orders(CleanupRows)
    /\ run' = [run EXCEPT !.list = IF dbOk THEN q ELSE <<>>, !.k = 1,
                          !.cleanupReached = TRUE,
                          !.cleanupEntered = TRUE,
                          !.validAtCleanup = run.validVehicleIds,
                          !.publishedAtCleanup = Published(vehicles),
                          !.updatedAtCleanup =
                              [id \in Ids |-> IF vehicles[id].exists
                                              THEN vehicles[id].updated_at ELSE NoNumber]]
    /\ pc' = "cleanup"
    /\ UNCHANGED <<syncLogs, filterConfig, fvehicle, fresult, apiKey, limit, perPage, incremental, now, feed,
                   vehicles, images, pending, taxonomies>>

\* Lines 1092-1110: the reactivation loop is over and the tracker is not
\* empty: cleanup runs its query (the phase is skipped when the query fails).
StartCleanup(q, dbOk) ==
    /\ pc = "reactivate"
    /\ run.k > Len(run.list)
    /\ run.validVehicleIds # {}
    /\ q \in Orders(CleanupRows)
    /\ run' = [run EXCEPT !.list = IF dbOk THEN q ELSE <<>>, !.k = 1,
                          !.cleanupReached = TRUE,
                          !.cleanupEntered = TRUE,
                          !.validAtCleanup = run.validVehicleIds,
                          !.publishedAtCleanup = Published(vehicles),
                          !.updatedAtCleanup =
                              [id \in Ids |-> IF vehicles[id].exists
                                              THEN vehicles[id].updated_at ELSE NoNumber]]
    /\ pc' = "cleanup"
    /\ UNCHANGED <<syncLogs, filterConfig, fvehicle, fresult, apiKey, limit, perPage, incremental, now, feed,
                   vehicles, images, pending, taxonomies>>

\* Lines 1241-1248: the tracker is empty, cleanup is skipped.
SkipCleanup ==
    /\ pc = "reactivate"
    /\ run.k > Len(run.list)
    /\ run.validVehicleIds = {}
    /\ run' = [run EXCEPT !.list = <<>>, !.k = 1,
                          !.cleanupReached = TRUE,
                          !.validAtCleanup = run.validVehicleIds,
                          !.publishedAtCleanup = Published(vehicles)]
    /\ pc' = "cleanup"
    /\ UNCHANGED <<syncLogs, filterConfig, fvehicle, fresult, apiKey, limit, perPage, incremental, now, feed,
                   vehicles, images, pending, taxonomies>>

\* Lines 1202-1218: archive a cleanup candidate with the reason found.
CleanupArchive(row, verificationReason, t) ==
    [row EXCEPT !.status = "archived",
                !.additional_data = [@ EXCEPT !.filter_reason = "not_in_valid_set",
                                              !.cleanup_verification = verificationReason,
                                              !.archived_at = t],
                !.updated_at = t]

\* The mutant of Recheck that reads the filter's verdict the wrong way round.
Recheck_Inverted(id, licensePlate, res) ==
    IF Falsy(licensePlate) \/ Len(trim(licensePlate)) = 0
    THEN [shouldArchive |-> TRUE, reason |-> "sin_license_plate"]
    ELSE IF res.threw
    THEN [shouldArchive |-> TRUE, reason |-> "error_consulta_api"]
    ELSE IF res.found # NotFound /\ res.found.id = id
    THEN IF shouldOmitVehicle(RecOf(res.found)).omit
         THEN [shouldArchive |-> FALSE, reason |-> "valido_en_api"]
         ELSE [shouldArchive |-> TRUE, reason |-> "filtrado_en_api"]
    ELSE [shouldArchive |-> TRUE, reason |-> "no_encontrado_en_api"]

\* The mutant of Recheck that records the two reasons for archiving the wrong
\* way round.
Recheck_SwapsReasons(id, licensePlate, res) ==
    IF Falsy(licensePlate) \/ Len(trim(licensePlate)) = 0
    THEN [shouldArchive |-> TRUE, reason |-> "sin_license_plate"]
    ELSE IF res.threw
    THEN [shouldArchive |-> TRUE, reason |-> "error_consulta_api"]
    ELSE IF res.found # NotFound /\ res.found.id = id
    THEN IF ~shouldOmitVehicle(RecOf(res.found)).omit
         THEN [shouldArchive |-> FALSE, reason |-> "valido_en_api"]
         ELSE [shouldArchive |-> TRUE, reason |-> "no_encontrado_en_api"]
    ELSE [shouldArchive |-> TRUE, reason |-> "filtrado_en_api"]

\* Lines 1161-1200: what the re-check of a candidate decides from the result
\* res of the lookup by its license plate (which is not made for a blank plate).
Recheck(id, licensePlate, res) ==
    IF Falsy(licensePlate) \/ Len(trim(licensePlate)) = 0
    THEN [shouldArchive |-> TRUE, reason |-> "sin_license_plate"]
    ELSE IF res.threw
    THEN [shouldArchive |-> TRUE, reason |-> "error_consulta_api"]
    ELSE IF res.found # NotFound /\ res.found.id = id
    THEN IF ~shouldOmitVehicle(RecOf(res.found)).omit
         THEN [shouldArchive |-> FALSE, reason |-> "valido_en_api"]
         ELSE [shouldArchive |-> TRUE, reason |-> "filtrado_en_api"]
    ELSE [shouldArchive |-> TRUE, reason |-> "no_encontrado_en_api"]

\* Lines 1116-1226: one candidate of the cleanup loop. dbFail names the
\* statement that fails: "select" (lines 1121-1124) or "update" (1215-1218),
\* both caught at line 1223.
CleanupOne(failSet, dbFail) ==
    /\ pc = "cleanup"
    /\ run.k <= Len(run.list)
    /\ LET id == run.list[run.k]
           row == vehicles[id]
           hoursSinceUpdate == now - row.updated_at
           blank == Falsy(row.license_plate) \/ Len(trim(row.license_plate)) = 0
           res == getVehicleByLicensePlate(feed, row.license_plate, failSet)
           chk == Recheck(id, row.license_plate, res)
       IN IF dbFail = "select"
          THEN /\ vehicles' = vehicles
               /\ run' = [run EXCEPT !.k = @ + 1]
          ELSE IF row.additional_data.keep_published \/ hoursSinceUpdate < GraceHours
          THEN /\ vehicles' = vehicles
               /\ run' = [run EXCEPT !.validVehicleIds = @ \cup {id}, !.k = @ + 1]
          ELSE LET seen == [run EXCEPT
                              !.examined = @ \cup {id},
                              !.lookedUp = IF blank THEN @ ELSE @ \cup {id},
                              !.apiResult[id] = IF blank THEN NotFound ELSE res.found,
                              !.lookupTripped =
                                  IF ~blank /\ res.tripped THEN @ \cup {id} ELSE @,
                              !.k = @ + 1]
               IN IF ~chk.shouldArchive
                  THEN /\ vehicles' = vehicles
                       /\ run' = [seen EXCEPT !.validVehicleIds = @ \cup {id}]
                  ELSE IF dbFail = "update"
                  THEN /\ vehicles' = vehicles
                       /\ run' = [seen EXCEPT !.archiveFailed = @ \cup {id}]
                  ELSE /\ vehicles' = [vehicles EXCEPT
                                         ![id] = CleanupArchive(@, chk.reason, now)]
                       /\ run' = [seen EXCEPT !.fase1Archived = @ + 1,
                                              !.archivedByCleanup = @ \cup {id}]
    /\ UNCHANGED <<syncLogs, filterConfig, fvehicle, fresult, apiKey, limit, perPage, incremental, now,
                   feed, images, pending, taxonomies, pc>>

(***************************************************************************)
(* Image Pipeline: downloadImage and downloadAllImages                     *)
(***************************************************************************)
\* AUTO_INCREMENT: an id no row of the table has; the smallest, as the
\* foreign keys leave no reference to a deleted row behind.
NewImageId(ims) == Min({ n \in 1..(Cardinality(ims) + 1) : \A im \in ims : im.id # n })

\* The mutant of downloadImage without the check for a stored image.
downloadImage_NoExistingCheck(db, imageUrl, vehicleId, ok, t) ==
    LET without == SelectSeq(db.pending,
                             LAMBDA p : ~(p.vehicle_id = vehicleId /\ p.image_url = imageUrl))
        imageId == NewImageId(db.images)
    IN IF ~ok THEN [db |-> db, success |-> FALSE, downloaded |-> FALSE]
       ELSE [db |-> [db EXCEPT !.images = @ \cup {[id |-> imageId, vehicle_id |-> vehicleId,
                                                    image_url |-> imageUrl,
                                                    is_featured |-> FALSE]},
                               !.pending = without],
             success |-> TRUE, downloaded |-> TRUE]

\* The mutant of downloadImage whose INSERT sets is_featured.
downloadImage_FlagEvery(db, imageUrl, vehicleId, ok, t) ==
    LET existing == { im \in db.images : im.vehicle_id = vehicleId /\ im.image_url = imageUrl }
        without == SelectSeq(db.pending,
                             LAMBDA p : ~(p.vehicle_id = vehicleId /\ p.image_url = imageUrl))
    IN IF existing # {}
       THEN [db |-> [db EXCEPT !.pending = without], success |-> TRUE, downloaded |-> FALSE]
       ELSE IF ~ok
       THEN [db |-> db, success |-> FALSE, downloaded |-> FALSE]
       ELSE LET imageId == NewImageId(db.images)
                ims == db.images \cup
                         {[id |-> imageId, vehicle_id |-> vehicleId, image_url |-> imageUrl,
                           is_featured |-> TRUE]}
                first == Cardinality({ im \in ims : im.vehicle_id = vehicleId }) = 1
                vs == IF first /\ db.vehicles[vehicleId].exists
                      THEN [db.vehicles EXCEPT ![vehicleId] =
                              [@ EXCEPT !.featured_image_id = imageId, !.updated_at = t]]
                      ELSE db.vehicles
            IN [db |-> [db EXCEPT !.vehicles = vs, !.images = ims, !.pending = without],
                success |-> TRUE, downloaded |-> TRUE]

\* downloadImage: db after the call, whether it reported success and whether
\* it fetched the file; ok says whether the HTTP download succeeds. The INSERT
\* leaves is_featured at its default.
downloadImage(db, imageUrl, vehicleId, ok, t) ==
    LET existing == { im \in db.images : im.vehicle_id = vehicleId /\ im.image_url = imageUrl }
        without == SelectSeq(db.pending,
                             LAMBDA p : ~(p.vehicle_id = vehicleId /\ p.image_url = imageUrl))
    IN IF existing # {}
       THEN [db |-> [db EXCEPT !.pending = without], success |-> TRUE, downloaded |-> FALSE]
       ELSE IF ~ok
       THEN [db |-> db, success |-> FALSE, downloaded |-> FALSE]
       ELSE LET imageId == NewImageId(db.images)
                ims == db.images \cup
                         {[id |-> imageId, vehicle_id |-> vehicleId, image_url |-> imageUrl,
                           is_featured |-> FALSE]}
                first == Cardinality({ im \in ims : im.vehicle_id = vehicleId }) = 1
                vs == IF first /\ db.vehicles[vehicleId].exists
                      THEN [db.vehicles EXCEPT ![vehicleId] =
                              [@ EXCEPT !.featured_image_id = imageId, !.updated_at = t]]
                      ELSE db.vehicles
            IN [db |-> [db EXCEPT !.vehicles = vs, !.images = ims, !.pending = without],
                success |-> TRUE, downloaded |-> TRUE]

\* The loop of downloadAllImages over the pending rows read at its start,
\* from the j-th on; failing holds the positions whose download fails, and
\* downloads collects the jobs whose file was fetched.
RECURSIVE DownloadFrom(_, _, _, _, _, _, _)
DownloadFrom(db, jobs, j, failing, errors, downloads, t) ==
    IF j > Len(jobs) THEN [db |-> db, errors |-> errors, downloads |-> downloads]
    ELSE LET r == downloadImage(db, jobs[j].image_url, jobs[j].vehicle_id, j \notin failing, t)
         IN DownloadFrom(r.db, jobs, j + 1, failing,
                         IF r.success THEN errors ELSE errors + 1,
                         IF r.downloaded THEN Append(downloads, jobs[j]) ELSE downloads, t)

\* Lines 1264-1342: once the cleanup loop is over (or was skipped), phase 2
\* downloads the pending images and the run returns its summary.
DownloadAllImages(failing, logOk) ==
    /\ pc = "cleanup"
    /\ run.k > Len(run.list)
    /\ failing \subseteq DOMAIN pending
    /\ LET r == DownloadFrom(DB, pending, 1, failing, 0, <<>>, now)
       IN /\ vehicles' = r.db.vehicles
          /\ images' = r.db.images
          /\ pending' = r.db.pending
          /\ run' = [run EXCEPT !.fase2Errors = r.errors]
          /\ syncLogs' = logSyncEnd(syncLogs, run.syncLogId, run.fase1Errors, r.errors, logOk)
    /\ pc' = "done"
    /\ UNCHANGED <<filterConfig, fvehicle, fresult, apiKey, limit, perPage, incremental, now,
                   feed, taxonomies>>

(***************************************************************************)
(* Synchronisation runs                                                    *)
(***************************************************************************)
\* The hour at which the run starts, and how long before it a recently
\* updated row was last written.
StartHour == 72
RecentAge == 24
MaxFeed == 2

\* config/filters.ts with the documented defaults: BLOCKED_BRANCH_OFFICES=Dakota,
\* MIN_PRICE=1, BLOCKED_STATUSES=reservado, REQUIRE_IMAGES=true.
DefaultFilterConfig ==
    [ blockedBranchOffices |-> <<StrDakota>>, minPrice |-> 1,
      blockedStatuses |-> <<StrReservadoLower>>, requireImages |-> TRUE ]

Limits == {0, 1}
PageSizes == {1, 2}

\* The catalogs: at most MaxFeed records, no id twice.
Feeds ==
    { f \in UNION { [1..n -> Entries] : n \in 0..MaxFeed } :
        \A a, b \in DOMAIN f : a # b => f[a].id # f[b].id }

ImageIdOf(id) == IF id = "v1" THEN 1 ELSE 2

\* The rows earlier runs leave for a vehicle: none; published long ago or
\* recently, with its image stored and featured; published long ago by a run
\* whose setVehicleMetadata failed (no license plate); archived recently for
\* having no active stock.
SeedKinds == {"absent", "pubOld", "pubRecent", "pubOldNoPlate", "archived"}

Seeds ==
    { kinds \in [Ids -> SeedKinds] : kinds["v2"] \in {"absent", "pubOld"} }

SeedRow(id, kind, t) ==
    IF kind = "absent" THEN NoRow
    ELSE LET vehicle == Rec(id, "ok")
             at == IF kind \in {"pubRecent", "archived"} THEN t - RecentAge ELSE 0
             base == [InsertRow(vehicle, generateVersionHash(vehicle), at)
                        EXCEPT !.featured_image_id = ImageIdOf(id)]
             row == setVehicleMetadata(base, vehicle, at, kind = "pubOldNoPlate")
         IN IF kind = "archived"
            THEN [row EXCEPT !.status = "archived",
                             !.additional_data =
                                 [@ EXCEPT !.filter_reason = "no_active_stock"]]
            ELSE IF kind = "pubOldKeep"
            THEN [row EXCEPT !.additional_data = [@ EXCEPT !.keep_published = TRUE]]
            ELSE row

Init ==
    /\ filterConfig = DefaultFilterConfig
    /\ fvehicle = Rec("v1", "ok")
    /\ fresult = [omit |-> FALSE, reason |-> NULL]
    /\ apiKey \in BOOLEAN
    /\ limit \in Limits
    /\ perPage \in PageSizes
    /\ incremental \in BOOLEAN
    /\ now = StartHour
    /\ feed = <<>>
    /\ \E kinds \in Seeds :
          /\ vehicles = [id \in Ids |-> SeedRow(id, kinds[id], StartHour)]
          /\ images = { [id |-> ImageIdOf(id), vehicle_id |-> id, image_url |-> StrUrl1,
                          is_featured |-> FALSE] :
                          id \in { x \in Ids : kinds[x] # "absent" } }
          /\ taxonomies = UNION { assignTaxonomies({}, id, Rec(id, "ok")) :
                                  id \in { x \in Ids : kinds[x] # "absent" } }
    /\ syncLogs = NoLogs
    /\ pending = <<>>
    /\ pc = "idle"
    /\ run = InitRun

Next ==
    \/ \E f \in Feeds : StartRun(f)
    \/ \E ok \in BOOLEAN : FetchPage(ok)
    \/ FetchDone
    \/ \E fp \in FailPoints : ProcessRecord(fp)
    \/ LimitReached
    \/ \E q \in Orders(ReactivationRows), dbOk \in BOOLEAN : ReconcileDone(q, dbOk)
    \/ \E failSet \in FailSets, dbOk \in BOOLEAN : ReactivateOne(failSet, dbOk)
    \/ \E q \in Orders(CleanupRows), dbOk \in BOOLEAN : StartCleanup(q, dbOk)
    \/ SkipCleanup
    \/ \E failSet \in FailSets, dbFail \in {"none", "select", "update"} :
          CleanupOne(failSet, dbFail)
    \/ \E failing \in SUBSET (DOMAIN pending), logOk \in BOOLEAN :
          DownloadAllImages(failing, logOk)

Spec == Init /\ [][Next]_vars

\* Runs on a store an operator has had a hand in: table sync_logs may be
\* missing, and a published vehicle may carry the keep_published flag, which
\* is set by hand. The rows are one archived or published vehicle and at
\* most a second, published one.
SeedsLog ==
    { kinds \in [Ids -> SeedKinds \cup {"pubOldKeep"}] :
        /\ kinds["v1"] \in {"archived", "pubOld", "pubOldKeep"}
        /\ kinds["v2"] \in {"absent", "pubOld"} }

InitLog ==
    /\ filterConfig = DefaultFilterConfig
    /\ fvehicle = Rec("v1", "ok")
    /\ fresult = [omit |-> FALSE, reason |-> NULL]
    /\ apiKey = TRUE
    /\ limit \in Limits
    /\ perPage = 2
    /\ incremental \in BOOLEAN
    /\ now = StartHour
    /\ feed = <<>>
    /\ \E kinds \in SeedsLog :
          /\ vehicles = [id \in Ids |-> SeedRow(id, kinds[id], StartHour)]
          /\ images = { [id |-> ImageIdOf(id), vehicle_id |-> id, image_url |-> StrUrl1,
                          is_featured |-> FALSE] :
                          id \in { x \in Ids : kinds[x] # "absent" } }
          /\ taxonomies = UNION { assignTaxonomies({}, id, Rec(id, "ok")) :
                                  id \in { x \in Ids : kinds[x] # "absent" } }
    /\ syncLogs \in {NoLogs, NoTable}
    /\ pending = <<>>
    /\ pc = "idle"
    /\ run = InitRun

SpecLog == InitLog /\ [][Next]_vars

(***************************************************************************)
(* The Filter Evaluator on its own                                         *)
(***************************************************************************)
MaxStocks == 2

\* Stock entries: active and clear of every filter; active (in mixed case) at
\* a blocked location; active with only the branch office blocked and no
\* location; active at a location that is not blocked with a blocked branch
\* office; not active; without a status.
StockEntries ==
    { [status |-> StrACTIVO, location_name |-> StrCentral, branch_office_name |-> StrCentral],
      [status |-> StrActivoMixed, location_name |-> StrDAKOTASUR,
       branch_office_name |-> StrCentral],
      [status |-> StrACTIVO, location_name |-> NULL, branch_office_name |-> StrDakota],
      [status |-> StrACTIVO, location_name |-> StrCentral, branch_office_name |-> StrDakota],
      [status |-> StrRESERVADO, location_name |-> StrCentral, branch_office_name |-> StrCentral],
      [status |-> NULL, location_name |-> StrDAKOTASUR, branch_office_name |-> StrDakota] }

FilterVehicles ==
    [ id : {"v1"},
      version : {"1.6"},
      stocks : UNION { [1..n -> StockEntries] : n \in 0..MaxStocks },
      list_price : {0, 1, 5000},
      license_plate : {NULL, StrBlank, PlateOf("v1")},
      images : { <<>>, <<StrBlank>>, <<StrBlank, StrUrl1>> } ]

\* The documented defaults; a deployment that also blocks the status "activo";
\* one that does not require images and has a minimum price of 5000.
FilterConfigs ==
    { DefaultFilterConfig,
      [DefaultFilterConfig EXCEPT !.blockedStatuses = <<StrReservadoLower, StrActivoLower>>],
      [DefaultFilterConfig EXCEPT !.requireImages = FALSE, !.minPrice = 5000,
                                  !.blockedBranchOffices = <<>>] }

NoResult == [omit |-> FALSE, reason |-> NULL]

InitFilter ==
    /\ filterConfig \in FilterConfigs
    /\ fvehicle \in FilterVehicles
    /\ fresult = NoResult
    /\ apiKey = TRUE
    /\ limit = 0
    /\ perPage = 1
    /\ incremental = FALSE
    /\ now = StartHour
    /\ feed = <<>>
    /\ vehicles = [id \in Ids |-> NoRow]
    /\ images = {}
    /\ syncLogs = NoLogs
    /\ pending = <<>>
    /\ taxonomies = {}
    /\ pc = "filter"
    /\ run = InitRun

\* A call of VehicleFilters.shouldOmitVehicle(fvehicle).
Evaluate ==
    /\ pc = "filter"
    /\ fresult' = shouldOmitVehicle(fvehicle)
    /\ pc' = "filtered"
    /\ UNCHANGED <<syncLogs, filterConfig, fvehicle, apiKey, limit, perPage, incremental, now, feed,
                   vehicles, images, pending, taxonomies, run>>

NextFilter == Evaluate

SpecFilter == InitFilter /\ [][NextFilter]_vars

(***************************************************************************)
(* The Reconciler and the Image Pipeline on one store                      *)
(*                                                                         *)
(* processVehicle and downloadAllImages called again and again, in any     *)
(* order, on records of the store shapes.                                  *)
(***************************************************************************)
\* The records reconciled: the store shapes of one vehicle.
StoreEntries == [id : {"v1"}, shape : StoreShapes]

\* The statements that fail in the calls of this specification.
StoreFailPoints == {"none", "find1", "reactivate", "needs", "upsert", "savePending"}

\* The calls made: every record unfailing, and the failures on the records of
\* shapes "ok" and "dakota" (one the filter admits, one it rejects).
StoreFailShapes == {"ok", "dakota"}
StoreCalls ==
    { c \in [e : StoreEntries, fp : StoreFailPoints] :
        c.fp = "none" \/ c.e.shape \in StoreFailShapes }

\* What the properties read of the last call: op names it; last, outcome and
\* events are the record, the result and the statements of the last
\* processVehicle; enqueued is the queue it left; jobs and failing are the
\* rows read by the last downloadAllImages and the ones whose download
\* failed; downloads are the files fetched and drains the number of
\* downloadAllImages calls (counted up to 2) since the last processVehicle;
\* dropped are the pending rows the last processVehicle removed from the queue.
StoreRun ==
    [ op |-> "none", last |-> NotFound, outcome |-> "none", events |-> {},
      enqueued |-> <<>>, jobs |-> <<>>, failing |-> {}, downloads |-> <<>>, drains |-> 0,
      dropped |-> {} ]

InitStore ==
    /\ filterConfig = DefaultFilterConfig
    /\ fvehicle = Rec("v1", "ok")
    /\ fresult = NoResult
    /\ apiKey = TRUE
    /\ limit = 0
    /\ perPage = 1
    /\ incremental \in BOOLEAN
    /\ now = StartHour
    /\ feed = <<>>
    /\ vehicles = [id \in Ids |-> NoRow]
    /\ images = {}
    /\ syncLogs = NoLogs
    /\ pending = <<>>
    /\ taxonomies = {}
    /\ pc = "store"
    /\ run = StoreRun

\* A call of processVehicle(RecOf(e), incremental).
Reconcile(e, fp) ==
    /\ pc = "store"
    /\ LET res == processVehicle(DB, RecOf(e), incremental, fp, now)
       IN /\ vehicles' = res.db.vehicles
          /\ images' = res.db.images
          /\ pending' = res.db.pending
          /\ taxonomies' = res.db.taxonomies
          /\ run' = [StoreRun EXCEPT
                       !.op = "reconcile",
                       !.last = e,
                       !.outcome = IF res.threw THEN "threw"
                                   ELSE IF ~res.success THEN "failed"
                                   ELSE IF res.filtered THEN "filtered"
                                   ELSE IF res.unchanged THEN "unchanged" ELSE "written",
                       !.events = res.events,
                       !.enqueued = res.db.pending,
                       !.dropped = SeqToSet(pending) \ SeqToSet(res.db.pending)]
    /\ UNCHANGED <<syncLogs, filterConfig, fvehicle, fresult, apiKey, limit, perPage, incremental, now,
                   feed, pc>>

\* A call of downloadAllImages().
Drain(failing) ==
    /\ pc = "store"
    /\ failing \subseteq DOMAIN pending
    /\ LET r == DownloadFrom(DB, pending, 1, failing, 0, <<>>, now)
       IN /\ vehicles' = r.db.vehicles
          /\ images' = r.db.images
          /\ pending' = r.db.pending
          /\ run' = [StoreRun EXCEPT
                       !.op = "drain",
                       !.enqueued = run.enqueued,
                       !.jobs = pending,
                       !.failing = failing,
                       !.downloads = run.downloads \o r.downloads,
                       !.drains = IF run.drains < 2 THEN run.drains + 1 ELSE run.drains]
    /\ UNCHANGED <<syncLogs, filterConfig, fvehicle, fresult, apiKey, limit, perPage, incremental, now,
                   feed, taxonomies, pc>>

NextStore ==
    \/ \E c \in StoreCalls : Reconcile(c.e, c.fp)
    \/ \E failing \in SUBSET (DOMAIN pending) : Drain(failing)

SpecStore == InitStore /\ [][NextStore]_vars

(***************************************************************************)
(* Two invocations of syncAll on one store. run and pc hold, for each      *)
(* invocation, its local variables and its position; the store and the     *)
(* catalog are shared. Each step is the code between two awaits, without   *)
(* failures.                                                               *)
(***************************************************************************)
Invocations == {"a", "b"}

\* The catalogs the invocations fetch.
RunsFeeds ==
    { f \in Feeds : \A j \in DOMAIN f : f[j].shape = "ok" \/ f[j] = [id |-> "v1", shape |-> "reserved"] }

\* Lines 717-732: the local variables of an invocation that has fetched the
\* records all; validVehicleIds = new Set(). added, validIdsArray, others and
\* cleanupRan are history: the keys this invocation added, the tracker its
\* cleanup query read, the trackers of the other invocations at that moment.
Invocation(all) ==
    [ all |-> all, i |-> 1, validVehicleIds |-> {}, list |-> <<>>, k |-> 1,
      added |-> {}, validIdsArray |-> {}, others |-> {}, cleanupRan |-> FALSE ]

\* The mutant of TrackerAdd that keeps one tracker for all invocations.
TrackerAdd_Shared(rs, r, key) ==
    [x \in DOMAIN rs |-> [rs[x] EXCEPT !.validVehicleIds = @ \cup {key}]]

\* validVehicleIds.add(key) in invocation r (lines 863, 870, 1029, 1146-1175).
TrackerAdd(rs, r, key) ==
    [rs EXCEPT ![r].validVehicleIds = @ \cup {key}]

\* The add with its history.
Track(rs, r, key) == [TrackerAdd(rs, r, key) EXCEPT ![r].added = @ \cup {key}]

InitRuns ==
    /\ filterConfig = DefaultFilterConfig
    /\ fvehicle = Rec("v1", "ok")
    /\ fresult = [omit |-> FALSE, reason |-> NULL]
    /\ apiKey = TRUE
    /\ limit = 0
    /\ perPage = 2
    /\ incremental \in BOOLEAN
    /\ now = StartHour
    /\ feed = <<>>
    /\ \E kinds \in [Ids -> {"absent", "pubOld"}] :
          /\ vehicles = [id \in Ids |-> SeedRow(id, kinds[id], StartHour)]
          /\ images = { [id |-> ImageIdOf(id), vehicle_id |-> id, image_url |-> StrUrl1,
                          is_featured |-> FALSE] :
                          id \in { x \in Ids : kinds[x] # "absent" } }
          /\ taxonomies = UNION { assignTaxonomies({}, id, Rec(id, "ok")) :
                                  id \in { x \in Ids : kinds[x] # "absent" } }
    /\ syncLogs = NoLogs
    /\ pending = <<>>
    /\ pc = [r \in Invocations |-> "idle"]
    /\ run = [r \in Invocations |-> Invocation(<<>>)]

\* Lines 701-800: an invocation starts and fetches the catalog, which is f now.
RunsStart(r, f) ==
    /\ pc[r] = "idle"
    /\ feed' = f
    /\ run' = [run EXCEPT ![r] = Invocation(f)]
    /\ pc' = [pc EXCEPT ![r] = "reconcile"]
    /\ UNCHANGED <<syncLogs, filterConfig, fvehicle, fresult, apiKey, limit, perPage, incremental, now,
                   vehicles, images, pending, taxonomies>>

\* Lines 841-902: the next fetched record of invocation r is reconciled.
RunsRecord(r) ==
    /\ pc[r] = "reconcile"
    /\ run[r].i <= Len(run[r].all)
    /\ LET vehicle == RecOf(run[r].all[run[r].i])
           res == processVehicle(DB, vehicle, incremental, "none", now)
           next == [run EXCEPT ![r].i = @ + 1]
       IN /\ vehicles' = res.db.vehicles
          /\ images' = res.db.images
          /\ pending' = res.db.pending
          /\ taxonomies' = res.db.taxonomies
          /\ run' = IF res.success /\ ~res.filtered THEN Track(next, r, vehicle.id) ELSE next
    /\ UNCHANGED <<syncLogs, filterConfig, fvehicle, fresult, apiKey, limit, perPage, incremental, now,
                   feed, pc>>

\* Lines 966-981: the reactivation query of invocation r.
RunsReconcileDone(r, q) ==
    /\ pc[r] = "reconcile"
    /\ run[r].i > Len(run[r].all)
    /\ q \in Orders(ReactivationRows)
    /\ UpdatedDesc(q)
    /\ run' = [run EXCEPT ![r].list = q, ![r].k = 1]
    /\ pc' = [pc EXCEPT ![r] = "reactivate"]
    /\ UNCHANGED <<syncLogs, filterConfig, fvehicle, fresult, apiKey, limit, perPage, incremental, now,
                   feed, vehicles, images, pending, taxonomies>>

\* Lines 987-1044: one archived vehicle of the reactivation phase of r.
RunsReactivateOne(r) ==
    /\ pc[r] = "reactivate"
    /\ run[r].k <= Len(run[r].list)
    /\ LET id == run[r].list[run[r].k]
           licensePlate == vehicles[id].license_plate
           res == getVehicleByLicensePlate(feed, licensePlate, {})
           api == res.found
           valid == /\ Len(trim(licensePlate)) > 0
                    /\ ~res.threw
                    /\ api # NotFound
                    /\ api.id = id
                    /\ ~shouldOmitVehicle(RecOf(api)).omit
           next == [run EXCEPT ![r].k = @ + 1]
       IN IF valid
          THEN /\ vehicles' = [vehicles EXCEPT ![id] = ReactivateRow(@, now)]
               /\ run' = Track(next, r, id)
          ELSE /\ vehicles' = vehicles
               /\ run' = next
    /\ UNCHANGED <<syncLogs, filterConfig, fvehicle, fresult, apiKey, limit, perPage, incremental, now,
                   feed, images, pending, taxonomies, pc>>

\* Lines 1102-1110 with the tracker of invocation r.
RunsCleanupRows(r) ==
    { id \in Published(vehicles) :
        /\ id \notin run[r].validVehicleIds
        /\ vehicles[id].updated_at < now - GraceHours }

\* Lines 1090-1110: the cleanup query of invocation r reads its tracker
\* (validIdsArray); the phase is skipped when the tracker is empty.
RunsStartCleanup(r, q) ==
    /\ pc[r] = "reactivate"
    /\ run[r].k > Len(run[r].list)
    /\ q \in Orders(RunsCleanupRows(r))
    /\ run' = [run EXCEPT
                 ![r].list = IF run[r].validVehicleIds # {} THEN q ELSE <<>>,
                 ![r].k = 1,
                 ![r].cleanupRan = run[r].validVehicleIds # {},
                 ![r].validIdsArray = run[r].validVehicleIds,
                 ![r].others = UNION { run[x].validVehicleIds : x \in Invocations \ {r} }]
    /\ pc' = [pc EXCEPT ![r] = "cleanup"]
    /\ UNCHANGED <<syncLogs, filterConfig, fvehicle, fresult, apiKey, limit, perPage, incremental, now,
                   feed, vehicles, images, pending, taxonomies>>

\* Lines 1116-1226: one candidate of the cleanup loop of invocation r.
RunsCleanupOne(r) ==
    /\ pc[r] = "cleanup"
    /\ run[r].k <= Len(run[r].list)
    /\ LET id == run[r].list[run[r].k]
           row == vehicles[id]
           hoursSinceUpdate == now - row.updated_at
           res == getVehicleByLicensePlate(feed, row.license_plate, {})
           chk == Recheck(id, row.license_plate, res)
           next == [run EXCEPT ![r].k = @ + 1]
       IN IF row.additional_data.keep_published \/ hoursSinceUpdate < GraceHours
          THEN /\ vehicles' = vehicles
               /\ run' = Track(next, r, id)
          ELSE IF ~chk.shouldArchive
          THEN /\ vehicles' = vehicles
               /\ run' = Track(next, r, id)
          ELSE /\ vehicles' = [vehicles EXCEPT ![id] = CleanupArchive(@, chk.reason, now)]
               /\ run' = next
    /\ UNCHANGED <<syncLogs, filterConfig, fvehicle, fresult, apiKey, limit, perPage, incremental, now,
                   feed, images, pending, taxonomies, pc>>

\* Lines 1264-1342: phase 2 of invocation r, and its return.
RunsDownloadAllImages(r) ==
    /\ pc[r] = "cleanup"
    /\ run[r].k > Len(run[r].list)
    /\ LET d == DownloadFrom(DB, pending, 1, {}, 0, <<>>, now)
       IN /\ vehicles' = d.db.vehicles
          /\ images' = d.db.images
          /\ pending' = d.db.pending
    /\ pc' = [pc EXCEPT ![r] = "done"]
    /\ UNCHANGED <<syncLogs, filterConfig, fvehicle, fresult, apiKey, limit, perPage, incremental, now,
                   feed, taxonomies, run>>

NextRuns ==
    \/ \E r \in Invocations, f \in RunsFeeds : RunsStart(r, f)
    \/ \E r \in Invocations : RunsRecord(r)
    \/ \E r \in Invocations, q \in Orders(ReactivationRows) : RunsReconcileDone(r, q)
    \/ \E r \in Invocations : RunsReactivateOne(r)
    \/ \E r \in Invocations : \E q \in Orders(RunsCleanupRows(r)) : RunsStartCleanup(r, q)
    \/ \E r \in Invocations : RunsCleanupOne(r)
    \/ \E r \in Invocations : RunsDownloadAllImages(r)

SpecRuns == InitRuns /\ [][NextRuns]_vars

(***************************************************************************)
(* Properties of the synchronisation run                                   *)
(***************************************************************************)
Admits(e) == ~shouldOmitVehicle(RecOf(e)).omit

\* The positions of the fetched records the filter admits / rejects.
FetchedAdmitted == { i \in DOMAIN run.all : Admits(run.all[i]) }
FetchedRejected == { i \in DOMAIN run.all : ~Admits(run.all[i]) }

\* C1, as stated: when the tracker is empty as the cleanup phase is reached,
\* cleanup is skipped and no vehicle published before the run is archived by
\* the run.
C1_NothingArchivedOnEmptyTracker ==
    (run.cleanupReached /\ run.validAtCleanup = {})
        => /\ ~run.cleanupEntered
           /\ run.publishedAtStart \cap Archived(vehicles) = {}

\* C1, amended: when the tracker is empty as the cleanup phase is reached,
\* cleanup is skipped: it examines and archives no vehicle, and a vehicle
\* published before the run is archived only by the reconcile phase (for a
\* fetched record the filter rejects).
C1_CleanupSkippedOnEmptyTracker ==
    (run.cleanupReached /\ run.validAtCleanup = {})
        => /\ ~run.cleanupEntered
           /\ run.examined = {}
           /\ run.archivedByCleanup = {}
           /\ run.publishedAtStart \cap Archived(vehicles) \subseteq run.archivedByReconcile

\* A run whose first page failed ends with cleanup skipped and every vehicle
\* that was published still published.
C1_Witness ==
    /\ pc = "done"
    /\ run.firstPageFailed
    /\ run.cleanupReached /\ run.validAtCleanup = {} /\ ~run.cleanupEntered
    /\ Cardinality(run.publishedAtStart) = 2
    /\ Published(vehicles) = run.publishedAtStart

\* C2, as stated: when the first page fetch fails and the run proceeds with no
\* fetched record, no vehicle is archived during the run.
C2_NoArchiveAfterFirstPageFailure ==
    (run.firstPageFailed /\ run.all = <<>>)
        => /\ run.archivedByCleanup = {}
           /\ run.publishedAtStart \cap Archived(vehicles) = {}

\* C3, as stated: a cleanup candidate whose lookup by license plate returns a
\* record the filter admits is not archived and is added to the tracker.
C3_AdmittedLookupKeeps ==
    \A id \in run.lookedUp :
        (run.apiResult[id] # NotFound /\ Admits(run.apiResult[id]))
            => id \notin run.archivedByCleanup /\ id \in run.validVehicleIds

\* C3, amended: a cleanup candidate whose lookup by license plate returns the
\* record of that same vehicle (the same external id), admitted by the filter,
\* is not archived, stays published and is added to the tracker.
C3_OwnAdmittedLookupKeeps ==
    \A id \in run.lookedUp :
        (run.apiResult[id] # NotFound /\ run.apiResult[id].id = id
            /\ Admits(run.apiResult[id]))
            => /\ id \notin run.archivedByCleanup
               /\ id \in run.validVehicleIds
               /\ id \in Published(vehicles)

\* Cleanup looked a candidate up, found its own admissible record and kept it.
C3_Witness ==
    \E id \in run.lookedUp :
        /\ pc = "done"
        /\ id \in run.publishedAtCleanup /\ id \notin run.validAtCleanup
        /\ run.apiResult[id] # NotFound /\ run.apiResult[id].id = id
        /\ Admits(run.apiResult[id])
        /\ id \in run.validVehicleIds /\ id \in Published(vehicles)

\* C4, as stated: cleanup archives a vehicle only after a lookup against the
\* catalog was attempted for it in the same run.
C4_ArchiveOnlyAfterLookup == run.archivedByCleanup \subseteq run.lookedUp

\* C5, as stated: at the end of a run no vehicle whose fetched record the
\* filter rejects is published.
C5_NoRejectedRecordPublished ==
    pc = "done" => \A i \in FetchedRejected : run.all[i].id \notin Published(vehicles)

\* C6, as stated: the key of every fetched record the filter admits is in the
\* tracker when the cleanup phase starts.
C6_EveryAdmittedFetchedTracked ==
    run.cleanupReached => \A i \in FetchedAdmitted : run.all[i].id \in run.validAtCleanup

\* C6, amended: the key of every fetched record that the reconcile loop handed
\* to the Reconciler and that the filter admits is in the tracker when the
\* cleanup phase starts, also when its writes failed or threw; a record the
\* loop never reached because of the record limit is not.
C6_EveryAdmittedHandledTracked ==
    /\ \A i \in run.handled \cap FetchedAdmitted : run.all[i].id \in run.validVehicleIds
    /\ run.cleanupReached
         => \A i \in run.handled \cap FetchedAdmitted : run.all[i].id \in run.validAtCleanup

\* An admitted record whose last attempt failed is in the tracker at cleanup.
C6_Witness ==
    \E i \in run.handled \cap FetchedAdmitted :
        /\ run.cleanupReached
        /\ run.all[i].id \in run.writeFailed
        /\ run.all[i].id \in run.validAtCleanup

\* C7, as stated: a cleanup candidate whose lookup gives up on request errors
\* is archived with the cleanup reason "recheck failed" (error_consulta_api).
C7_LookupErrorRecorded ==
    \A id \in run.lookupTripped :
        /\ id \in run.archivedByCleanup
        /\ vehicles[id].additional_data.cleanup_verification = "error_consulta_api"

\* C8: cleanup archives no vehicle whose last update was less than 48 hours
\* old when cleanup ran; its candidates, and so the vehicles it archives, were
\* published, outside the tracker and last updated at least 48 hours before.
C8_GraceWindow ==
    /\ \A j \in DOMAIN run.list :
          (pc = "cleanup" /\ run.cleanupEntered)
              => /\ run.list[j] \in run.publishedAtCleanup
                 /\ run.list[j] \notin run.validAtCleanup
                 /\ now - run.updatedAtCleanup[run.list[j]] >= 48
    /\ \A id \in run.examined \cup run.archivedByCleanup :
          /\ id \in run.publishedAtCleanup
          /\ id \notin run.validAtCleanup
          /\ now - run.updatedAtCleanup[id] >= 48

\* Cleanup ran over a published vehicle outside the tracker that was updated
\* less than 48 hours before, and the vehicle is still published at the end.
C8_Witness ==
    \E id \in run.publishedAtCleanup :
        /\ pc = "done" /\ run.cleanupEntered
        /\ id \notin run.validAtCleanup
        /\ now - run.updatedAtCleanup[id] < 48
        /\ id \notin run.examined
        /\ id \in Published(vehicles)

\* C10, as stated: a published vehicle whose record arrives with the stock
\* status RESERVADO is archived with the reason bucket blocked_status, and
\* its stored images remain.
C10_ReservedArchivedAsBlockedStatus ==
    \A i \in run.handled :
        (run.all[i].shape = "reserved" /\ run.all[i].id \in run.archivedByReconcile)
            => /\ vehicles[run.all[i].id].additional_data.filter_reason = "blocked_status"
               /\ \E im \in images : im.vehicle_id = run.all[i].id

(***************************************************************************)
(* Properties of the Filter Evaluator                                      *)
(***************************************************************************)
\* The six checks, each on its own (the second and the fourth are about the
\* active stock entry, so they cannot fail without one).
FailedChecks ==
    { k \in 1..6 :
        \/ k = 1 /\ ~HasActiveStock(fvehicle)
        \/ k = 2 /\ HasActiveStock(fvehicle)
                 /\ BlockedOfficeIdx(ActiveStock(fvehicle)) # {}
        \/ k = 3 /\ ListPrice(fvehicle) <= filterConfig.minPrice
        \/ k = 4 /\ HasActiveStock(fvehicle)
                 /\ BlockedStatusIdx(ActiveStock(fvehicle)) # {}
        \/ k = 5 /\ NoLicensePlate(fvehicle)
        \/ k = 6 /\ filterConfig.requireImages /\ ~HasImages(fvehicle) }

\* The check a reason text belongs to.
ReasonCheck(reason) ==
    IF reason = TxtNoStock THEN 1
    ELSE IF startsWith(reason, TxtConcesionaria) THEN 2
    ELSE IF startsWith(reason, TxtPrecio) THEN 3
    ELSE IF startsWith(reason, TxtEstado) THEN 4
    ELSE IF reason = TxtLicense THEN 5
    ELSE IF reason = TxtNoImages THEN 6
    ELSE 0

\* C9: for a record that fails more than one of the six checks, the reason
\* reported is that of the earliest failing check in the order no active
\* stock, blocked location, price, blocked status, license plate, images.
C9_EarliestCheckWins ==
    (pc = "filtered" /\ Cardinality(FailedChecks) > 1)
        => /\ fresult.omit
           /\ ReasonCheck(fresult.reason) = Min(FailedChecks)

\* A record with a blocked status, no license plate and no image is rejected
\* for its status.
C9_Witness ==
    /\ pc = "filtered"
    /\ FailedChecks = {4, 5, 6}
    /\ fresult.omit
    /\ ReasonCheck(fresult.reason) = 4

(***************************************************************************)
(* Properties of the Reconciler and the Image Pipeline                     *)
(***************************************************************************)
\* The checks of the Filter Evaluator a record fails, each on its own.
ChecksFailed(vehicle) ==
    { k \in 1..6 :
        \/ k = 1 /\ ~HasActiveStock(vehicle)
        \/ k = 2 /\ HasActiveStock(vehicle) /\ BlockedOfficeIdx(ActiveStock(vehicle)) # {}
        \/ k = 3 /\ ListPrice(vehicle) <= filterConfig.minPrice
        \/ k = 4 /\ HasActiveStock(vehicle) /\ BlockedStatusIdx(ActiveStock(vehicle)) # {}
        \/ k = 5 /\ NoLicensePlate(vehicle)
        \/ k = 6 /\ filterConfig.requireImages /\ ~HasImages(vehicle) }

\* C11, as stated: a vehicle archived for the location of its record is
\* published again, without its filter_reason, by the reconcile of a record
\* the filter admits.
C11_LocationArchiveReactivated ==
    [][ LET id == run'.last.id
        IN (/\ run'.op = "reconcile"
            /\ Admits(run'.last)
            /\ vehicles[id].exists
            /\ vehicles[id].status = "archived"
            /\ vehicles[id].additional_data.filter_reason = "dakota_location")
           => /\ vehicles'[id].status = "published"
              /\ vehicles'[id].additional_data.filter_reason = NoTag ]_vars

ImagesOf(vehicleId, imageUrl) ==
    { im \in images : im.vehicle_id = vehicleId /\ im.image_url = imageUrl }

C14_HandledEntryLeavesQueue ==
    run.op = "drain"
        => \A j \in DOMAIN run.jobs : \A k \in DOMAIN pending : pending[k] # run.jobs[j]

AdmittedWithImages(vehicle) ==
    /\ ChecksFailed(vehicle) = {}
    /\ filterConfig.requireImages
          => \E i \in DOMAIN vehicle.images :
                ~Falsy(vehicle.images[i]) /\ Len(trim(vehicle.images[i])) > 0

\* The record the step of the run is about admits the vehicle id: in the
\* reconcile loop the record at hand, in the reactivation phase the record
\* found for the vehicle.
AdmittedInStep(id) ==
    CASE pc = "reconcile" ->
            /\ run.i <= Len(run.all)
            /\ run.all[run.i].id = id
            /\ AdmittedWithImages(RecOf(run.all[run.i]))
      [] pc = "reactivate" ->
            \E j \in DOMAIN feed : feed[j].id = id /\ AdmittedWithImages(RecOf(feed[j]))
      [] OTHER -> FALSE

C17_OnlyFreshUrlsEnqueued ==
    [][ LET id == run'.last.id
        IN (run'.op = "reconcile" /\ "update" \in run'.events
            /\ run'.events \cap {"enqueue", "clearPending"} # {})
           => \A k \in DOMAIN pending' :
                 pending'[k].vehicle_id = id
                    => /\ pending'[k].image_url \in SeqToSet(ImageUrls(RecOf(run'.last)))
                       /\ \A im \in images :
                             ~(im.vehicle_id = id /\ im.image_url = pending'[k].image_url) ]_vars

\* The record of a vehicle with one stored image arrived with a second URL:
\* only the second is in the queue.
C17_Witness ==
    /\ run.op = "reconcile"
    /\ run.last.shape = "two"
    /\ {"update", "enqueue"} \subseteq run.events
    /\ ImagesOf(run.last.id, StrUrl1) # {}
    /\ pending = <<[vehicle_id |-> run.last.id, image_url |-> StrUrl2]>>

\* The assignments the record derives: its condition, and its transmission
\* when it names one.
DerivedTaxonomies(vehicleId, vehicle) ==
    {[vehicle_id |-> vehicleId, taxonomy |-> "condition",
      term |-> IF vehicle.car_condition = "new" THEN Str0KM ELSE StrUsado]}
    \cup (IF Falsy(vehicle.car_transmission) \/ Len(trim(vehicle.car_transmission)) = 0
          THEN {}
          ELSE {[vehicle_id |-> vehicleId, taxonomy |-> "transmission",
                 term |-> trim(vehicle.car_transmission)]})

\* C18, as stated: after a successful upsert the vehicle's taxonomy
\* assignments are exactly the ones derived from the record just written,
\* one per category at most.
C18_TaxonomiesReplaced ==
    (run.op = "reconcile" /\ run.outcome = "written")
        => { x \in taxonomies : x.vehicle_id = run.last.id }
              = DerivedTaxonomies(run.last.id, RecOf(run.last))

\* C19: when the request of a page after the first fails, the pages asked
\* for are those up to it and no other, the records of the pages before it
\* are kept, and the reconcile loop handles every one of them.
C19_PartialFetchReconciled ==
    run.failedPage > 1
        => /\ ~run.hasMore
           /\ run.requested = 1..run.failedPage
           /\ run.currentPage = run.failedPage
           /\ run.all = SubSeq(feed, 1, (run.failedPage - 1) * perPage)
           /\ pc \in {"reactivate", "cleanup", "done"} => run.handled = DOMAIN run.all

\* The second page failed and the run ended having reconciled the record of
\* the first.
C19_Witness ==
    /\ pc = "done"
    /\ run.failedPage = 2
    /\ Len(run.all) = 1
    /\ run.handled = {1}
    /\ run.all[1].id \in Published(vehicles)

\* C20, as stated: the reconcile loop counts a record as an error only when
\* its attempt that failed was the third.
C20_ErrorOnlyAfterLastAttempt ==
    [][ (pc = "reconcile" /\ run'.fase1Errors = run.fase1Errors + 1)
            => run.retryCount + 1 = maxRetries ]_vars

\* Every fetched record was handled, but for those the record limit cut off.
AllHandled ==
    \A i \in DOMAIN run.all :
        i \in run.handled \/ (limit > 0 /\ run.fase1Processed >= limit)

\* How far the run has come: its phase, and within the phase the pages
\* requested, the attempts made or the rows examined.
RunProgress ==
    CASE pc = "idle" -> 0
      [] pc = "fetch" -> 100 + Cardinality(run.requested)
      [] pc = "reconcile" -> 200 + run.i * maxRetries + run.retryCount
      [] pc = "reactivate" -> 300 + run.k
      [] pc = "cleanup" -> 400 + run.k
      [] OTHER -> 500

\* C21: whatever happens to a record (rejected, write failed, exception after
\* the last retry), the loop goes on with the record after it, so that when
\* the loop is over every fetched record was handled unless the record limit
\* cut it off; every step brings the run forward, and a run that has ended
\* has passed the cleanup step.
C21_RecordFailureDoesNotStopRun ==
    /\ [](pc \in {"reactivate", "cleanup", "done"} => AllHandled)
    /\ [](pc = "done" => run.cleanupReached)
    /\ [][(pc = "reconcile" /\ pc' = "reconcile" /\ run'.i # run.i)
             => (run'.i = run.i + 1 \/ (limit > 0 /\ run.fase1Processed >= limit))]_vars
    /\ [][RunProgress' > RunProgress]_vars

\* A run ended whose first record failed for good (rejected, or its write
\* failed) and whose second was written.
C21_Witness ==
    /\ pc = "done"
    /\ Len(run.all) = 2
    /\ run.handled = {1, 2}
    /\ run.cleanupReached
    /\ run.all[1].id \notin run.validVehicleIds
    /\ run.all[2].id \in run.validVehicleIds
    /\ run.fase1Processed = 1

\* The row of the run in sync_logs, if logSyncStart created one.
HasLogRow == run.syncLogId # NoNumber
LogRow == syncLogs.rows[run.syncLogId]

\* C22, as stated: a run that created its row in sync_logs has, when it ends,
\* changed the status of the row from running to completed or failed.
C22_LogRowFinalized ==
    (pc = "done" /\ HasLogRow) => LogRow.status \in {"completed", "failed"}

\* The run could not create its row, or could not finalize it.
LogFailed == ~HasLogRow \/ (pc = "done" /\ LogRow.status = "running")

\* C23: a run whose row in sync_logs could not be created or finalized has,
\* when it ends, requested the catalog, handled every fetched record (unless
\* the record limit cut it off) and passed the cleanup step; its last step,
\* which finalizes the row, changes nothing of the summary but the count of
\* image errors, whether the finalization succeeds or not.
C23_LogFailureDoesNotBlock ==
    /\ []((pc = "done" /\ LogFailed)
            => (run.requested # {} /\ AllHandled /\ run.cleanupReached))
    /\ [][(pc = "cleanup" /\ pc' = "done")
            => run' = [run EXCEPT !.fase2Errors = run'.fase2Errors]]_vars

\* A run without table sync_logs ended having written the record it fetched.
C23_Witness ==
    /\ pc = "done"
    /\ ~syncLogs.exists
    /\ ~HasLogRow
    /\ run.handled # {}
    /\ run.fase1Processed > 0
    /\ run.cleanupEntered

\* The reconcile loop handled a record of the vehicle that passes every check
\* of the filter, or the reactivation phase found such a record for it.
JudgedAdmissible(id) ==
    \/ \E i \in run.handled :
          run.all[i].id = id /\ ChecksFailed(RecOf(run.all[i])) = {}
    \/ /\ id \in run.reactivated
       /\ \E j \in DOMAIN feed : feed[j].id = id /\ ChecksFailed(RecOf(feed[j])) = {}

\* Cleanup looked the vehicle up and found a record that passes every check.
AdmittedOnRecheck(id) ==
    /\ id \in run.examined
    /\ run.apiResult[id] # NotFound
    /\ run.apiResult[id].id = id
    /\ ChecksFailed(RecOf(run.apiResult[id])) = {}

\* C24, as stated: every key in the Valid-Set Tracker is the key of a record
\* the Filter Evaluator judged admissible during the run.
C24_TrackedKeysJudgedAdmissible ==
    \A id \in run.validVehicleIds : JudgedAdmissible(id) \/ AdmittedOnRecheck(id)

\* C24, amended: every key in the Valid-Set Tracker is the key of a record
\* the Filter Evaluator judged admissible during the run, or was added by
\* the cleanup phase for a published vehicle it keeps without evaluating any
\* record: one with the keep_published flag or updated within the grace window.
C24_TrackedKeysJudgedOrKept ==
    \A id \in run.validVehicleIds :
        \/ JudgedAdmissible(id)
        \/ AdmittedOnRecheck(id)
        \/ /\ pc \in {"cleanup", "done"}
           /\ id \in run.publishedAtCleanup
           /\ id \notin run.validAtCleanup
           /\ \/ vehicles[id].additional_data.keep_published
              \/ now - run.updatedAtCleanup[id] < GraceHours

\* At the end of a run the tracker holds the key of a record the reconcile
\* loop admitted and the key of a vehicle cleanup kept for its flag.
C24_Witness ==
    /\ pc = "done"
    /\ \E id \in run.validVehicleIds : JudgedAdmissible(id)
    /\ \E id \in run.validVehicleIds :
          /\ ~JudgedAdmissible(id)
          /\ id \notin run.validAtCleanup
          /\ vehicles[id].additional_data.keep_published

\* Cleanup archived the vehicle and recorded the reason.
ArchivedByCleanupFor(id, verificationReason) ==
    /\ id \in run.archivedByCleanup
    /\ vehicles[id].status = "archived"
    /\ vehicles[id].additional_data.filter_reason = "not_in_valid_set"
    /\ vehicles[id].additional_data.cleanup_verification = verificationReason

PendingOf(pend, vehicleId) == SelectSeq(pend, LAMBDA p : p.vehicle_id = vehicleId)

\* The URLs of a record that are not blank.
NonBlankUrls(vehicle) ==
    SelectSeq(vehicle.images, LAMBDA u : ~Falsy(u) /\ Len(trim(u)) > 0)

\* One pending row of the vehicle for each of the URLs, in their order.
RowsFor(vehicleId, urls) ==
    [i \in 1..Len(urls) |-> [vehicle_id |-> vehicleId, image_url |-> urls[i]]]

\* C26, as stated: a reconcile that writes an admitted record of a vehicle
\* the store does not hold leaves that vehicle published and, in the queue,
\* one pending row for each URL of the record that is not blank, and no other.
C26_NewVehicleEnqueuesItsUrls ==
    [][ LET id == run'.last.id
        IN (/\ run'.op = "reconcile"
            /\ run'.outcome = "written"
            /\ ~vehicles[id].exists)
           => /\ vehicles'[id].exists
              /\ vehicles'[id].status = "published"
              /\ PendingOf(pending', id) = RowsFor(id, NonBlankUrls(RecOf(run'.last))) ]_vars


\* Every ordering of the image array of vehicle.
Permuted(urls) ==
    { [i \in DOMAIN urls |-> urls[p[i]]] : p \in Permutations(DOMAIN urls) }

\* C27: the Version Fingerprint stored for a reconciled record is the
\* fingerprint of every permutation of the record's image array, so that a
\* reordered record is not taken for a changed one.
C27_PermutationKeepsFingerprint ==
    LET vehicle == RecOf(run.last)
        row == vehicles[run.last.id]
    IN (run.op = "reconcile" /\ run.outcome = "written" /\ row.exists)
         => \A urls \in Permuted(vehicle.images) :
               /\ generateVersionHash([vehicle EXCEPT !.images = urls]) = row.version_hash
               /\ generateVersionHash([vehicle EXCEPT !.images = urls])
                     = generateVersionHash(vehicle)

C27_Witness ==
    /\ run.op = "reconcile" /\ run.outcome = "written"
    /\ run.last.shape = "two"
    /\ Cardinality(Permuted(RecOf(run.last).images)) = 2
    /\ vehicles[run.last.id].exists
    /\ vehicles[run.last.id].version_hash.images_urls = <<StrUrl1, StrUrl2>>
    /\ vehicles[run.last.id].version_hash
          = generateVersionHash([RecOf(run.last) EXCEPT !.images = <<StrUrl2, StrUrl1>>])


\* The step that handles an inadmissible record whose vehicle exists.
HandlesInadmissibleExisting ==
    /\ pc = "reconcile" /\ pc' = "reconcile"
    /\ run.i <= Len(run.all)
    /\ run'.handled = run.handled \cup {run.i}
    /\ run.i \notin run.handled
    /\ ~Admits(run.all[run.i])
    /\ vehicles[run.all[run.i].id].exists

\* The row the archive branch leaves, with and without the modification time.
ArchivedRow(row, vehicle) ==
    [row EXCEPT !.status = "archived",
                !.additional_data =
                    [@ EXCEPT !.filter_reason =
                                  FilterReasonBucket(shouldOmitVehicle(vehicle).reason)]]

\* C28, as stated: archiving an existing vehicle for an inadmissible record
\* changes its status and its filter_reason tag and nothing else.
C28_ArchiveChangesStatusAndReasonOnly ==
    [][ HandlesInadmissibleExisting
          => LET id == run.all[run.i].id
             IN /\ vehicles' \in { vehicles,
                                    [vehicles EXCEPT ![id] = ArchivedRow(@, RecOf(run.all[run.i]))] }
                /\ UNCHANGED <<images, pending, taxonomies>> ]_vars

\* C28, amended: archiving an existing vehicle for an inadmissible record
\* changes its status, its filter_reason tag and its updated_at, which is set
\* to the time of the archive; title, prices, fingerprint, last_synced_at,
\* the rest of the extra document, the other vehicles, the stored images, the
\* pending entries and the taxonomy assignments are unchanged.
C28_ArchiveChangesStatusReasonAndTime ==
    [][ HandlesInadmissibleExisting
          => LET id == run.all[run.i].id
                 archived == [ArchivedRow(vehicles[id], RecOf(run.all[run.i]))
                                EXCEPT !.updated_at = now]
             IN /\ vehicles' \in { vehicles, [vehicles EXCEPT ![id] = archived] }
                /\ UNCHANGED <<images, pending, taxonomies>> ]_vars

C28_Witness ==
    \E id \in run.archivedByReconcile \cap run.publishedAtStart :
        /\ vehicles[id].status = "archived"
        /\ vehicles[id].additional_data.filter_reason = "no_active_stock"
        /\ vehicles[id].updated_at = now
        /\ vehicles[id].last_synced_at < now
        /\ vehicles[id].version_hash = generateVersionHash(Rec(id, "ok"))
        /\ vehicles[id].featured_image_id = ImageIdOf(id)



\* C29: reconciling an inadmissible record that has no local vehicle writes
\* nothing to the store and creates no vehicle: vehicles, stored images,
\* pending entries and taxonomy assignments are as before, and the call
\* reports the record as filtered.
C29_InadmissibleUnknownIsNoOp ==
    [][ (run'.op = "reconcile" /\ ~Admits(run'.last) /\ ~vehicles[run'.last.id].exists)
          => /\ UNCHANGED <<vehicles, images, pending, taxonomies>>
             /\ run'.events = {}
             /\ run'.outcome = "filtered" ]_vars

C29_Witness ==
    /\ run.op = "reconcile"
    /\ run.last = [id |-> "v1", shape |-> "dakota"]
    /\ shouldOmitVehicle(RecOf(run.last)).omit
    /\ run.outcome = "filtered"
    /\ run.events = {}
    /\ ~vehicles["v1"].exists
    /\ images = {} /\ pending = <<>> /\ taxonomies = {}



UrlsToAdd(vehicleId, vehicle) ==
    SelectSeq(ImageUrls(vehicle), LAMBDA u : ImagesOf(vehicleId, u) = {})

LookupPlates ==
    { vehicles[id].license_plate :
        id \in { x \in Ids : /\ vehicles[x].exists
                              /\ ~Falsy(vehicles[x].license_plate)
                              /\ Len(trim(vehicles[x].license_plate)) > 0 } }

\* The first request at which maxConsecutiveErrors requests in a row have failed.
TripPoints(failSet) ==
    { k \in maxConsecutiveErrors..MaxSearchPages :
        \A j \in (k - maxConsecutiveErrors + 1)..k : j \in failSet }

C32_TrackerScopedToInvocation ==
    /\ [](\A r \in Invocations :
            /\ run[r].validVehicleIds = run[r].added
            /\ run[r].validIdsArray \subseteq run[r].added
            /\ pc[r] = "idle" => run[r].validVehicleIds = {})
    /\ [][\A r \in Invocations :
            (pc[r] = "idle" /\ pc'[r] # "idle") => run'[r].validVehicleIds = {}]_vars

\* Invocation b ran its cleanup while a, still running, held the key v1 in
\* its tracker; the tracker b read held v2 and not v1.
C32_Witness ==
    /\ pc["a"] \in {"reconcile", "reactivate", "cleanup"}
    /\ "v1" \in run["a"].validVehicleIds
    /\ run["b"].cleanupRan
    /\ "v1" \in run["b"].others
    /\ run["b"].validIdsArray = {"v2"}

\* C33: when the lookup made for a cleanup candidate returned 'not found', no
\* record of the catalog carries the candidate's license plate: every page
\* was read and none held it.
C33_NotFoundOnlyAfterFullRead ==
    \A id \in run.lookedUp :
        (apiKey /\ run.apiResult[id] = NotFound)
          => \A j \in DOMAIN feed :
                ~PlateMatches(feed[j], toUpperCase(trim(vehicles[id].license_plate)))

\* C34, its safety half: after a record of a published vehicle has been
\* reconciled (written, or found unchanged), every image URL of the record is
\* a pending row or a stored image of the vehicle; and a pending row leaves
\* the queue in the image pipeline only when its URL is a stored image.
C34_UrlQueuedOrStored ==
    /\ [][ LET id == run'.last.id
           IN (run'.op = "reconcile" /\ run'.outcome \in {"written", "unchanged"}
                 /\ vehicles'[id].exists /\ vehicles'[id].status = "published")
                => \A u \in SeqToSet(ImageUrls(RecOf(run'.last))) :
                      \/ [vehicle_id |-> id, image_url |-> u] \in SeqToSet(pending')
                      \/ \E im \in images' : im.vehicle_id = id /\ im.image_url = u ]_vars
    /\ [][ run'.op = "drain"
             => \A p \in SeqToSet(pending) \ SeqToSet(pending') :
                   \E im \in images' : im.vehicle_id = p.vehicle_id /\ im.image_url = p.image_url ]_vars

\* C35: when the image pipeline has emptied the queue, every vehicle that
\* has a stored image has a featured-image reference to one of its own
\* stored images.
C35_FeaturedAfterDrain ==
    (run.op = "drain" /\ pending = <<>>)
      => \A id \in Ids :
            LET own == { im \in images : im.vehicle_id = id }
            IN (vehicles[id].exists /\ own # {})
                 => vehicles[id].featured_image_id \in { im.id : im \in own }

\* C36: the filter_reason bucket an archive writes names the check the record
\* failed: no_active_stock, dakota_location, min_price, blocked_status and
\* no_images for the checks of stock, location, price, status and images, a
\* bucket of its own for the license plate, and never 'unknown'.
C36_BucketIdentifiesCheck ==
    (run.op = "reconcile" /\ "archive" \in run.events)
      => LET k == ReasonCheck(shouldOmitVehicle(RecOf(run.last)).reason)
             bucket == vehicles[run.last.id].additional_data.filter_reason
         IN /\ bucket # "unknown"
            /\ k = 1 => bucket = "no_active_stock"
            /\ k = 2 => bucket = "dakota_location"
            /\ k = 3 => bucket = "min_price"
            /\ k = 4 => bucket = "blocked_status"
            /\ k = 5 => bucket \notin {"no_active_stock", "dakota_location", "min_price",
                                       "blocked_status", "no_images"}
            /\ k = 6 => bucket = "no_images"

\* C37: a record whose active stock entry has a location name that is not
\* blank and contains no blocked name is not rejected for its location,
\* whatever its branch office name is.
C37_BranchOnlyWhenLocationMissing ==
    (pc = "filtered" /\ HasActiveStock(fvehicle))
      => LET activeStock == ActiveStock(fvehicle)
             locationName == toLowerCase(OrEmpty(activeStock.location_name))
         IN (/\ Len(trim(locationName)) > 0
             /\ \A i \in DOMAIN filterConfig.blockedBranchOffices :
                   ~includes(locationName, toLowerCase(filterConfig.blockedBranchOffices[i])))
              => ~(fresult.omit /\ ReasonCheck(fresult.reason) = 2)

\* C38: a published vehicle carries no filter_reason, no cleanup_verification
\* and no archived_at tag in its extra document.
C38_PublishedCarriesNoAuditTag ==
    \A id \in Published(vehicles) :
        /\ vehicles[id].additional_data.filter_reason = NoTag
        /\ vehicles[id].additional_data.cleanup_verification = NoTag
        /\ vehicles[id].additional_data.archived_at = NoNumber

\* C39, as stated: under a record limit greater than zero the reconcile loop
\* handles at most that many of the fetched records.
C39_LimitBoundsHandledRecords ==
    limit > 0 => Cardinality(run.handled) <= limit

\* C39, amended: under a record limit greater than zero the reconcile loop
\* creates or updates at most that many vehicles, and handles a record only
\* while fewer than that many were created or updated; the records the filter
\* rejects, those left unchanged and those whose write fails do not count.
C39_LimitBoundsWrittenRecords ==
    /\ [](limit > 0 => run.fase1Processed <= limit)
    /\ [][(limit > 0 /\ run'.handled # run.handled) => run.fase1Processed < limit]_vars

\* A run under limit 1 ended with two records fetched, the first written and
\* the second cut off by the limit.
C39_Witness ==
    /\ pc = "done"
    /\ limit = 1
    /\ Len(run.all) = 2
    /\ run.handled = {1}
    /\ run.fase1Processed = 1

\* C40: the row of a run in sync_logs stays running until the last step of the
\* run; when that step finalizes it, the row becomes completed if the run
\* counted no error in phase 1 and none in the image phase, and failed
\* otherwise, so that at the end a completed row means no counted error and a
\* failed row means at least one.
C40_FinalStatusFollowsErrorCounts ==
    /\ []((HasLogRow /\ pc # "done") => LogRow.status = "running")
    /\ []((pc = "done" /\ HasLogRow /\ LogRow.status = "completed")
            => (run.fase1Errors = 0 /\ run.fase2Errors = 0))
    /\ []((pc = "done" /\ HasLogRow /\ LogRow.status = "failed")
            => (run.fase1Errors > 0 \/ run.fase2Errors > 0))
    /\ [][(HasLogRow /\ syncLogs' # syncLogs)
            => /\ pc' = "done"
               /\ syncLogs'.rows[run.syncLogId].status =
                    IF run'.fase1Errors = 0 /\ run'.fase2Errors = 0
                    THEN "completed" ELSE "failed"]_vars

\* A run ended without an error in phase 1 and with a download that failed:
\* its row is failed.
C40_Witness ==
    /\ pc = "done"
    /\ HasLogRow
    /\ LogRow.status = "failed"
    /\ run.fase1Errors = 0
    /\ run.fase2Errors > 0

====
